---- MODULE Spec2Model ----
(***************************************************************************)
(* A model of the GPU buffer cache of src/video_core/buffer_cache/          *)
(* buffer_cache.h: the page table, the coalescing allocator, the dirty     *)
(* tracking that drives uploads and downloads, the binding tables and the  *)
(* asynchronous download queues.                                           *)
(*                                                                         *)
(* Addresses and sizes are byte counts.  The model only uses addresses and *)
(* sizes that are multiples of Unit, and tracks the CPU-modified and       *)
(* GPU-modified state and the contents of guest memory and of the host     *)
(* buffers per Unit-sized granule, a granule being named by its guest      *)
(* address divided by Unit.                                                *)
(***************************************************************************)
EXTENDS Integers, Sequences, FiniteSets, TLC

\* ------------------------------------------------------------ constants
PAGE_BITS == 16
PAGE_SIZE == 2 ^ PAGE_BITS
NULL_BUFFER_ID == 0
\* A default-constructed BufferId{}: no valid slot.
INVALID_ID == -1
\* An empty std::optional<VAddr>: GpuToCpuAddress found no mapping.
NO_CPU_ADDR == -1
\* arbitrary_extra_bytes of StorageBufferBinding (0xc000)
ARBITRARY_EXTRA_BYTES == 49152
STREAM_LEAP_THRESHOLD == 16
STREAM_LEAP_PAGES == 256
DEFAULT_SKIP_CACHE_SIZE == 4096
\* The length of uniform_cache_hits and of uniform_cache_shots.
UNIFORM_CACHE_WINDOW == 16
\* The build modelled is the OpenGL one.  The Vulkan build makes the calls this
\* build makes on a runtime without fast buffer sub-data, every slot dirty.
IS_OPENGL == TRUE
HAS_PERSISTENT_UNIFORM_BUFFER_BINDINGS == TRUE

\* ------------------------------------------------------------ bounds
\* Guest memory modelled, in granules: the bytes [0, MemUnits * Unit).
MemUnits == 4
\* Buffers CreateBuffer may make in one behaviour (slot 0 not counted).
MaxBuffers == 3
\* Largest size of a binding request, in granules.
MaxSizeUnits == 2
\* Longest list of committed download lists.
MaxCommitted == 2
\* Binding classes configured (registers set or slot enabled) at the same time.
MaxConfigured == 2
MaxPasses == 9
\* Shots counted in the window of the uniform heuristic.
MaxShots == 1
\* Shots counted within one frame.
MaxFrameShots == 3

\* The granule of the model: half a cache page.
Unit == PAGE_SIZE \div 2
MemEnd == MemUnits * Unit
MemGranules == 0 .. MemUnits - 1

\* ------------------------------------------------------------ arithmetic
DivCeil(a, b) == (a + b - 1) \div b
Max(a, b) == IF a >= b THEN a ELSE b
Min(a, b) == IF a <= b THEN a ELSE b
SetMin(S) == CHOOSE x \in S : \A y \in S : x <= y

\* The granules of the byte range [addr, addr + size).
Range(addr, size) == { g \in (addr \div Unit) .. (DivCeil(addr + size, Unit) - 1) : TRUE }

\* Contents: what guest software wrote at granule g, what the GPU wrote into the
\* host copy of granule g, and the content of host memory never written.
GuestVal(g) == g + 1
GpuVal(g) == 0 - (g + 1)
NoVal == 0
Only(S) == CHOOSE x \in S : TRUE

\* ------------------------------------------------------------ state
VARIABLES
    slot_buffers,           \* id -> buffer (slot 0 is the null buffer)
    page_table,             \* page -> id, defined on the registered pages only
    bindings,               \* one binding of each binding table
    masks,                  \* enable and written masks of the modelled slots
    regs,                   \* rasterizer and compute registers
    flags,                  \* the rasterizer's dirty flags
    last_index_count,
    uncommitted_downloads,
    committed_downloads,    \* index 1 is the front (newest)
    has_deleted_buffers,
    cpu_memory,             \* guest memory, per granule
    fast_bound_uniform_buffers,     \* the bit of the uniform slot modelled
    uniform_cache_hits,             \* index 1 is element 0
    uniform_cache_shots,
    uniform_buffer_skip_cache_size,
    dirty_uniform_buffers,          \* the bit of the uniform slot modelled
    cached_write_buffer_ids

vars == << slot_buffers, page_table, bindings, masks, regs, flags, last_index_count,
           uncommitted_downloads, committed_downloads, has_deleted_buffers, cpu_memory,
           fast_bound_uniform_buffers, uniform_cache_hits, uniform_cache_shots,
           uniform_buffer_skip_cache_size, dirty_uniform_buffers,
           cached_write_buffer_ids >>

\* ------------------------------------------------------------ BufferBase
\* The extent of a buffer, as granules.
Extent(b) == Range(b.cpu_addr, b.size)

\* A buffer as constructed: nothing uploaded yet, so all of it is CPU-modified;
\* no guest write is queued (cached), and the cached-writes bit is clear.
NewBuffer(addr, size) ==
    [ cpu_addr |-> addr, size |-> size, live |-> TRUE, picked |-> FALSE,
      stream_score |-> 0, cpu |-> Range(addr, size), gpu |-> {},
      cached |-> {}, cached_writes |-> FALSE,
      host |-> [ o \in 0 .. DivCeil(size, Unit) - 1 |-> NoVal ] ]

NullBuffer == NewBuffer(0, 0)

IsInBounds(b, addr, size) == addr >= b.cpu_addr /\ addr + size <= b.cpu_addr + b.size

\* The Mark/Unmark calls take a guest address and clip the range to the buffer.
MarkRegionAsCpuModified(b, addr, size) ==
    [ b EXCEPT !.cpu = @ \cup (Range(addr, size) \cap Extent(b)) ]

UnmarkRegionAsCpuModified(b, addr, size) ==
    [ b EXCEPT !.cpu = @ \ Range(addr, size) ]

MarkRegionAsGpuModified(b, addr, size) ==
    [ b EXCEPT !.gpu = @ \cup (Range(addr, size) \cap Extent(b)) ]

HasCachedWrites(b) == b.cached_writes

\* Queues a guest write: the range is not CPU-modified before the flush.
CachedCpuWrite(b, addr, size) ==
    [ b EXCEPT !.cached = @ \cup (Range(addr, size) \cap Extent(b)),
               !.cached_writes = TRUE ]

\* BufferBase::FlushCachedWrites: the queued writes become CPU-modified.
FlushBufferCachedWrites(b) ==
    [ b EXCEPT !.cpu = @ \cup b.cached, !.cached = {}, !.cached_writes = FALSE ]

\* The maximal runs of consecutive granules of S, ascending: << [g, n], ... >>.
RECURSIVE RunsOf(_)
RunsOf(S) ==
    IF S = {} THEN << >>
    ELSE LET lo == SetMin(S)
             n == SetMin({ k \in 1 .. Cardinality(S) : (lo + k) \notin S })
         IN << [ g |-> lo, n |-> n ] >> \o RunsOf(S \ (lo .. lo + n - 1))

\* The (range_offset, range_size) pairs ForEachUploadRange / ForEachDownloadRange
\* hand to the callback for the modified granules S of buffer b.
RangesOf(b, S) ==
    LET runs == RunsOf(S)
    IN [ i \in 1 .. Len(runs) |->
           [ offset |-> runs[i].g * Unit - b.cpu_addr, size |-> runs[i].n * Unit ] ]

\* ------------------------------------------------------------ the cache as a value
\* The members the private methods read and write, as one record, so that a
\* method is an operator from cache to cache.  The Settings singleton is read
\* again by every MarkWrittenBuffer: the caller passes the values it has during
\* the operation.
CacheWith(settings) ==
    [ slot_buffers |-> slot_buffers, page_table |-> page_table, bindings |-> bindings,
      flags |-> flags, uncommitted_downloads |-> uncommitted_downloads,
      committed_downloads |-> committed_downloads,
      has_deleted_buffers |-> has_deleted_buffers, cpu_memory |-> cpu_memory,
      masks |-> masks, regs |-> regs,
      fast_bound_uniform_buffers |-> fast_bound_uniform_buffers,
      uniform_cache_hits |-> uniform_cache_hits,
      uniform_cache_shots |-> uniform_cache_shots,
      uniform_buffer_skip_cache_size |-> uniform_buffer_skip_cache_size,
      dirty_uniform_buffers |-> dirty_uniform_buffers,
      cached_write_buffer_ids |-> cached_write_buffer_ids,
      last_index_count |-> last_index_count, settings |-> settings ]

\* The cache for the operations that read no setting.
Cache == CacheWith([ gpu_level_high |-> FALSE, use_asynchronous_gpu_emulation |-> FALSE ])

Binding(addr, size, id) == [ cpu_addr |-> addr, size |-> size, buffer_id |-> id ]
NULL_BINDING == Binding(0, 0, NULL_BUFFER_ID)

\* page_table[page], INVALID_ID on a page no buffer is registered on.
PageAt(pt, page) == IF page \in DOMAIN pt THEN pt[page] ELSE INVALID_ID

\* SlotVector::insert: the code never erases a slot, so ids only grow.
NextId(c) == Cardinality(DOMAIN c.slot_buffers)

Insert(c, buffer) ==
    [ c EXCEPT !.slot_buffers =
        [ i \in 0 .. NextId(c) |-> IF i = NextId(c) THEN buffer ELSE c.slot_buffers[i] ] ]

\* ------------------------------------------------------------ Register / Unregister
\* ChangeRegister with the end page rounded down: the last, partly covered page
\* is left out.
ChangeRegisterFloor(c, buffer_id, insert) ==
    LET buffer == c.slot_buffers[buffer_id]
        page_begin == buffer.cpu_addr \div PAGE_SIZE
        page_end == (buffer.cpu_addr + buffer.size) \div PAGE_SIZE
        pages == page_begin .. page_end - 1
        pt == c.page_table
    IN [ c EXCEPT !.page_table =
           IF insert
           THEN [ p \in DOMAIN pt \cup pages |-> IF p \in pages THEN buffer_id ELSE pt[p] ]
           ELSE [ p \in DOMAIN pt \ pages |-> pt[p] ] ]

ChangeRegister(c, buffer_id, insert) ==
    LET buffer == c.slot_buffers[buffer_id]
        cpu_addr_begin == buffer.cpu_addr
        cpu_addr_end == cpu_addr_begin + buffer.size
        page_begin == cpu_addr_begin \div PAGE_SIZE
        page_end == DivCeil(cpu_addr_end, PAGE_SIZE)
        pages == page_begin .. page_end - 1
        pt == c.page_table
    IN [ c EXCEPT !.page_table =
           IF insert
           THEN [ p \in DOMAIN pt \cup pages |-> IF p \in pages THEN buffer_id ELSE pt[p] ]
           ELSE [ p \in DOMAIN pt \ pages |-> pt[p] ] ]

Register(c, buffer_id) == ChangeRegister(c, buffer_id, TRUE)
Unregister(c, buffer_id) == ChangeRegister(c, buffer_id, FALSE)

\* ------------------------------------------------------------ deletion
\* std::erase(ids, buffer_id)
RECURSIVE Erase(_, _)
Erase(ids, buffer_id) ==
    IF ids = << >> THEN << >>
    ELSE IF Head(ids) = buffer_id THEN Erase(Tail(ids), buffer_id)
    ELSE << Head(ids) >> \o Erase(Tail(ids), buffer_id)

NotifyBufferDeletion(c) ==
    [ c EXCEPT !.dirty_uniform_buffers = @ \/ HAS_PERSISTENT_UNIFORM_BUFFER_BINDINGS,
               !.flags = [ IndexBuffer |-> TRUE, VertexBuffers |-> TRUE,
                           VertexBuffer0 |-> TRUE ],
               !.has_deleted_buffers = TRUE ]

\* DeleteBuffer that leaves the vertex buffer bindings alone.
DeleteBufferKeepVertex(c, buffer_id) ==
    LET scalar_replace(binding) ==
            IF binding.buffer_id = buffer_id
            THEN [ binding EXCEPT !.buffer_id = INVALID_ID ] ELSE binding
        buffer == c.slot_buffers[buffer_id]
        c1 == [ c EXCEPT
                !.bindings = [ k \in DOMAIN c.bindings |->
                                 IF k = "vertex_buffers" THEN c.bindings[k]
                                 ELSE scalar_replace(c.bindings[k]) ],
                !.cached_write_buffer_ids = Erase(@, buffer_id),
                !.slot_buffers[buffer_id] =
                    MarkRegionAsCpuModified(buffer, buffer.cpu_addr, buffer.size) ]
        c2 == Unregister(c1, buffer_id)
        c3 == [ c2 EXCEPT !.slot_buffers[buffer_id].live = FALSE,
                          !.slot_buffers[buffer_id].host = << >> ]
    IN NotifyBufferDeletion(c3)

\* DeleteBuffer that leaves the deleted id among the cached writes.
DeleteBufferKeepCachedWrite(c, buffer_id) ==
    LET scalar_replace(binding) ==
            IF binding.buffer_id = buffer_id
            THEN [ binding EXCEPT !.buffer_id = INVALID_ID ] ELSE binding
        buffer == c.slot_buffers[buffer_id]
        c1 == [ c EXCEPT
                !.bindings = [ k \in DOMAIN c.bindings |-> scalar_replace(c.bindings[k]) ],
                !.slot_buffers[buffer_id] =
                    MarkRegionAsCpuModified(buffer, buffer.cpu_addr, buffer.size) ]
        c2 == Unregister(c1, buffer_id)
        c3 == [ c2 EXCEPT !.slot_buffers[buffer_id].live = FALSE,
                          !.slot_buffers[buffer_id].host = << >> ]
    IN NotifyBufferDeletion(c3)

DeleteBuffer(c, buffer_id) ==
    LET scalar_replace(binding) ==
            IF binding.buffer_id = buffer_id
            THEN [ binding EXCEPT !.buffer_id = INVALID_ID ] ELSE binding
        buffer == c.slot_buffers[buffer_id]
        c1 == [ c EXCEPT
                !.bindings = [ k \in DOMAIN c.bindings |-> scalar_replace(c.bindings[k]) ],
                !.cached_write_buffer_ids = Erase(@, buffer_id),
                !.slot_buffers[buffer_id] =
                    MarkRegionAsCpuModified(buffer, buffer.cpu_addr, buffer.size) ]
        c2 == Unregister(c1, buffer_id)
        \* moved into the delayed destruction ring: the slot keeps a moved-from buffer
        c3 == [ c2 EXCEPT !.slot_buffers[buffer_id].live = FALSE,
                          !.slot_buffers[buffer_id].host = << >> ]
    IN NotifyBufferDeletion(c3)

\* ------------------------------------------------------------ download queues
\* std::ranges::replace
ReplaceIds(buffers, old_id, new_id) ==
    [ i \in 1 .. Len(buffers) |-> IF buffers[i] = old_id THEN new_id ELSE buffers[i] ]

\* Keep the first new_id, erase every later one.
EraseLater(buffers, new_id) ==
    IF \E i \in 1 .. Len(buffers) : buffers[i] = new_id
    THEN LET it == SetMin({ i \in 1 .. Len(buffers) : buffers[i] = new_id })
         IN SelectSeq([ i \in 1 .. Len(buffers) |-> << i, buffers[i] >> ],
                      LAMBDA e : e[1] <= it \/ e[2] # new_id)
    ELSE [ i \in 1 .. Len(buffers) |-> << i, buffers[i] >> ]

\* ReplaceBufferDownloads that replaces the id and erases nothing.
ReplaceBufferDownloadsNoErase(c, old_buffer_id, new_buffer_id) ==
    [ c EXCEPT !.uncommitted_downloads = ReplaceIds(@, old_buffer_id, new_buffer_id),
               !.committed_downloads =
                   [ i \in 1 .. Len(@) |-> ReplaceIds(@[i], old_buffer_id, new_buffer_id) ] ]

ReplaceBufferDownloads(c, old_buffer_id, new_buffer_id) ==
    LET replace(buffers) ==
            LET kept == EraseLater(ReplaceIds(buffers, old_buffer_id, new_buffer_id),
                                   new_buffer_id)
            IN [ i \in 1 .. Len(kept) |-> kept[i][2] ]
    IN [ c EXCEPT !.uncommitted_downloads = replace(@),
                  !.committed_downloads = [ i \in 1 .. Len(@) |-> replace(@[i]) ] ]

\* MarkWrittenBuffer without the search for the id in uncommitted_downloads.
MarkWrittenBufferNoFind(c, buffer_id, cpu_addr, size) ==
    LET c1 == [ c EXCEPT !.slot_buffers[buffer_id] =
                           MarkRegionAsGpuModified(@, cpu_addr, size) ]
    IN IF ~c.settings.gpu_level_high \/ ~c.settings.use_asynchronous_gpu_emulation
       THEN c1
       ELSE [ c1 EXCEPT !.uncommitted_downloads = Append(@, buffer_id) ]

MarkWrittenBuffer(c, buffer_id, cpu_addr, size) ==
    LET c1 == [ c EXCEPT !.slot_buffers[buffer_id] =
                           MarkRegionAsGpuModified(@, cpu_addr, size) ]
        is_accuracy_high == c.settings.gpu_level_high
        is_async == c.settings.use_asynchronous_gpu_emulation
    IN IF ~is_accuracy_high \/ ~is_async THEN c1
       ELSE IF \E i \in 1 .. Len(c.uncommitted_downloads) :
                   c.uncommitted_downloads[i] = buffer_id
       THEN c1
       ELSE [ c1 EXCEPT !.uncommitted_downloads = Append(@, buffer_id) ]

\* ------------------------------------------------------------ runtime.CopyBuffer
\* One copy: size bytes of src at src_offset to dst at dst_offset, on contents
\* indexed by granule.
CopyOne(dst, src, copy) ==
    LET d0 == copy.dst_offset \div Unit
        s0 == copy.src_offset \div Unit
        n == copy.size \div Unit
    IN [ i \in DOMAIN dst |-> IF i \in d0 .. d0 + n - 1 THEN src[s0 + (i - d0)] ELSE dst[i] ]

RECURSIVE CopyBuffer(_, _, _)
CopyBuffer(dst, src, copies) ==
    IF copies = << >> THEN dst
    ELSE CopyBuffer(CopyOne(dst, src, Head(copies)), src, Tail(copies))

\* ------------------------------------------------------------ coalescing
\* The scan of ResolveOverlaps; r carries the loop's locals and the buffers
\* (Pick() is a write).  The iterations that `continue`, on a page without a
\* buffer or with a picked one, change cpu_addr only: a run of them is one step
\* here, to the next page that has a buffer to pick or to the end of the scan.
RECURSIVE ResolveLoop(_, _)
ResolveLoop(pt, r) ==
    IF ~(r.cpu_addr \div PAGE_SIZE < DivCeil(r.end, PAGE_SIZE)) THEN r
    ELSE
    LET page == r.cpu_addr \div PAGE_SIZE
        overlap_id == PageAt(pt, page)
        ahead == { p \in DOMAIN pt : /\ p > page
                                     /\ p < DivCeil(r.end, PAGE_SIZE)
                                     /\ ~r.slot_buffers[pt[p]].picked }
        skipped == IF ahead = {} THEN DivCeil(r.end, PAGE_SIZE) - page
                   ELSE SetMin(ahead) - page
    IN IF overlap_id = INVALID_ID \/ r.slot_buffers[overlap_id].picked
       THEN ResolveLoop(pt, [ r EXCEPT !.cpu_addr = @ + skipped * PAGE_SIZE ])
       ELSE
       LET overlap == r.slot_buffers[overlap_id]
           overlap_cpu_addr == overlap.cpu_addr
           moved == overlap_cpu_addr < r.begin
           begin == IF moved THEN overlap_cpu_addr ELSE r.begin
           cpu_addr == IF moved THEN overlap_cpu_addr ELSE r.cpu_addr
           end == Max(r.end, overlap_cpu_addr + overlap.size)
           stream_score == r.stream_score + overlap.stream_score
           leap == stream_score > STREAM_LEAP_THRESHOLD /\ ~r.has_stream_leap
       IN ResolveLoop(pt,
            [ slot_buffers |-> [ r.slot_buffers EXCEPT ![overlap_id].picked = TRUE ],
              ids |-> Append(r.ids, overlap_id),
              cpu_addr |-> cpu_addr + PAGE_SIZE,
              begin |-> begin,
              end |-> IF leap THEN end + PAGE_SIZE * STREAM_LEAP_PAGES ELSE end,
              stream_score |-> stream_score,
              has_stream_leap |-> r.has_stream_leap \/ leap ])

\* ResolveOverlaps that scans no page: the new buffer absorbs nothing.
ResolveOverlapsNoScan(c, cpu_addr, wanted_size) ==
    [ slot_buffers |-> c.slot_buffers, ids |-> << >>, cpu_addr |-> cpu_addr,
      begin |-> cpu_addr, end |-> cpu_addr + wanted_size, stream_score |-> 0,
      has_stream_leap |-> FALSE ]

\* ResolveOverlaps that returns the requested address as begin, wherever the
\* picked buffers start.
ResolveOverlapsKeepBegin(c, cpu_addr, wanted_size) ==
    LET r == ResolveLoop(c.page_table,
                 [ slot_buffers |-> c.slot_buffers, ids |-> << >>, cpu_addr |-> cpu_addr,
                   begin |-> cpu_addr, end |-> cpu_addr + wanted_size, stream_score |-> 0,
                   has_stream_leap |-> FALSE ])
    IN [ r EXCEPT !.begin = cpu_addr ]

\* ResolveOverlaps that widens the end once more after the scan of a stream leap.
ResolveOverlapsLeapTwice(c, cpu_addr, wanted_size) ==
    LET r == ResolveLoop(c.page_table,
                 [ slot_buffers |-> c.slot_buffers, ids |-> << >>, cpu_addr |-> cpu_addr,
                   begin |-> cpu_addr, end |-> cpu_addr + wanted_size, stream_score |-> 0,
                   has_stream_leap |-> FALSE ])
    IN [ r EXCEPT !.end = IF r.has_stream_leap THEN @ + PAGE_SIZE * STREAM_LEAP_PAGES
                          ELSE @ ]

ResolveOverlaps(c, cpu_addr, wanted_size) ==
    ResolveLoop(c.page_table,
        [ slot_buffers |-> c.slot_buffers, ids |-> << >>, cpu_addr |-> cpu_addr,
          begin |-> cpu_addr, end |-> cpu_addr + wanted_size, stream_score |-> 0,
          has_stream_leap |-> FALSE ])

\* The two marks JoinOverlap makes on the new buffer for each download range of
\* the overlap; begin is the range's offset in the overlap.
RECURSIVE JoinMarks(_, _)
JoinMarks(new_buffer, ranges) ==
    IF ranges = << >> THEN new_buffer
    ELSE LET begin == Head(ranges).offset
             range_size == Head(ranges).size
         IN JoinMarks(MarkRegionAsGpuModified(
                          UnmarkRegionAsCpuModified(new_buffer, begin, range_size),
                          begin, range_size),
                      Tail(ranges))

JoinOverlap(c, new_buffer_id, overlap_id, accumulate_stream_score) ==
    LET new0 == c.slot_buffers[new_buffer_id]
        overlap == c.slot_buffers[overlap_id]
        new1 == IF accumulate_stream_score
                THEN [ new0 EXCEPT !.stream_score = @ + overlap.stream_score + 1 ]
                ELSE new0
        dst_base_offset == overlap.cpu_addr - new0.cpu_addr
        ranges == RangesOf(overlap, overlap.gpu)
        copies == [ i \in 1 .. Len(ranges) |->
                      [ src_offset |-> ranges[i].offset,
                        dst_offset |-> dst_base_offset + ranges[i].offset,
                        size |-> ranges[i].size ] ]
        new2 == JoinMarks(new1, ranges)
        new3 == [ new2 EXCEPT !.host = CopyBuffer(@, overlap.host, copies) ]
        c1 == [ c EXCEPT !.slot_buffers[new_buffer_id] = new3,
                         !.slot_buffers[overlap_id].gpu = {} ]
    IN DeleteBuffer(ReplaceBufferDownloads(c1, overlap_id, new_buffer_id), overlap_id)

RECURSIVE JoinAll(_, _, _, _)
JoinAll(c, new_buffer_id, ids, accumulate) ==
    IF ids = << >> THEN c
    ELSE JoinAll(JoinOverlap(c, new_buffer_id, Head(ids), accumulate),
                 new_buffer_id, Tail(ids), accumulate)

\* CreateBuffer that puts the new buffer into the slot of the null buffer.
CreateBufferIntoNullSlot(c, cpu_addr, wanted_size) ==
    LET overlap == ResolveOverlaps(c, cpu_addr, wanted_size)
        size == overlap.end - overlap.begin
        c1 == [ c EXCEPT !.slot_buffers =
                  [ overlap.slot_buffers EXCEPT ![NULL_BUFFER_ID] =
                      NewBuffer(overlap.begin, size) ] ]
        c2 == JoinAll(c1, NULL_BUFFER_ID, overlap.ids, ~overlap.has_stream_leap)
    IN [ c |-> Register(c2, NULL_BUFFER_ID), id |-> NULL_BUFFER_ID ]

\* CreateBuffer that lets every join accumulate the stream score.
CreateBufferAlwaysAccumulate(c, cpu_addr, wanted_size) ==
    LET overlap == ResolveOverlaps(c, cpu_addr, wanted_size)
        size == overlap.end - overlap.begin
        new_buffer_id == NextId(c)
        c1 == Insert([ c EXCEPT !.slot_buffers = overlap.slot_buffers ],
                     NewBuffer(overlap.begin, size))
        c2 == JoinAll(c1, new_buffer_id, overlap.ids, TRUE)
    IN [ c |-> Register(c2, new_buffer_id), id |-> new_buffer_id ]

\* Returns the cache and the new id.
CreateBuffer(c, cpu_addr, wanted_size) ==
    LET overlap == ResolveOverlaps(c, cpu_addr, wanted_size)
        size == overlap.end - overlap.begin
        new_buffer_id == NextId(c)
        c1 == Insert([ c EXCEPT !.slot_buffers = overlap.slot_buffers ],
                     NewBuffer(overlap.begin, size))
        c2 == JoinAll(c1, new_buffer_id, overlap.ids, ~overlap.has_stream_leap)
    IN [ c |-> Register(c2, new_buffer_id), id |-> new_buffer_id ]

\* FindBuffer without the test for the null address.
FindBufferNoNullCheck(c, cpu_addr, size) ==
    LET page == cpu_addr \div PAGE_SIZE
        buffer_id == PageAt(c.page_table, page)
    IN IF buffer_id = INVALID_ID THEN CreateBuffer(c, cpu_addr, size)
       ELSE IF IsInBounds(c.slot_buffers[buffer_id], cpu_addr, size)
       THEN [ c |-> c, id |-> buffer_id ]
       ELSE CreateBuffer(c, cpu_addr, size)

FindBuffer(c, cpu_addr, size) ==
    IF cpu_addr = 0 THEN [ c |-> c, id |-> NULL_BUFFER_ID ]
    ELSE LET page == cpu_addr \div PAGE_SIZE
             buffer_id == PageAt(c.page_table, page)
         IN IF buffer_id = INVALID_ID THEN CreateBuffer(c, cpu_addr, size)
            ELSE IF IsInBounds(c.slot_buffers[buffer_id], cpu_addr, size)
            THEN [ c |-> c, id |-> buffer_id ]
            ELSE CreateBuffer(c, cpu_addr, size)

\* ------------------------------------------------------------ upload
\* ForEachBufferInRange: the ids of the buffers func is called on, in order.
RECURSIVE BuffersInRange(_, _, _)
BuffersInRange(c, page, page_end) ==
    IF page >= page_end THEN << >>
    ELSE LET buffer_id == PageAt(c.page_table, page)
         IN IF buffer_id = INVALID_ID THEN BuffersInRange(c, page + 1, page_end)
            ELSE LET buffer == c.slot_buffers[buffer_id]
                     end_addr == buffer.cpu_addr + buffer.size
                 IN << buffer_id >> \o
                    BuffersInRange(c, DivCeil(end_addr, PAGE_SIZE), page_end)

ForEachBufferInRange(c, cpu_addr, size) ==
    BuffersInRange(c, cpu_addr \div PAGE_SIZE, DivCeil(cpu_addr + size, PAGE_SIZE))

\* The copies a callback builds from the enumerated ranges: the ranges packed one
\* after the other on the packed side, at their buffer offset on the buffer side.
RECURSIVE PackedOffsets(_, _)
PackedOffsets(ranges, total) ==
    IF ranges = << >> THEN << >>
    ELSE << total >> \o PackedOffsets(Tail(ranges), total + Head(ranges).size)

RECURSIVE TotalSize(_)
TotalSize(ranges) == IF ranges = << >> THEN 0 ELSE Head(ranges).size + TotalSize(Tail(ranges))

\* A staging buffer of the runtime: the lease is the bytes [offset, offset + size).
StagingBuffer(offset, size) ==
    [ i \in (offset \div Unit) .. ((offset + size) \div Unit) - 1 |-> NoVal ]

MappedUploadMemory(c, buffer_id, total_size_bytes, copies, staging_offset) ==
    LET buffer == c.slot_buffers[buffer_id]
        \* ReadBlockUnsafe into the mapped span, whose byte 0 is staging_offset
        reads == [ i \in 1 .. Len(copies) |->
                     [ src_offset |-> buffer.cpu_addr + copies[i].dst_offset,
                       dst_offset |-> copies[i].src_offset + staging_offset,
                       size |-> copies[i].size ] ]
        staging == CopyBuffer(StagingBuffer(staging_offset, total_size_bytes),
                              c.cpu_memory, reads)
        staged == [ i \in 1 .. Len(copies) |->
                      [ copies[i] EXCEPT !.src_offset = @ + staging_offset ] ]
    IN [ c EXCEPT !.slot_buffers[buffer_id].host = CopyBuffer(@, staging, staged) ]

\* SynchronizeBufferImpl that enumerates the first upload range only.
SynchronizeBufferImplFirstRange(c, buffer_id, cpu_addr, size, staging_offset) ==
    LET buffer == c.slot_buffers[buffer_id]
        all == buffer.cpu \cap Range(cpu_addr, size)
        modified == IF all = {} THEN {} ELSE { SetMin(all) }
        ranges == RangesOf(buffer, modified)
        copies == [ i \in 1 .. Len(ranges) |->
                      [ src_offset |-> 0, dst_offset |-> ranges[i].offset,
                        size |-> ranges[i].size ] ]
        total_size_bytes == TotalSize(ranges)
        c1 == [ c EXCEPT !.slot_buffers[buffer_id].cpu = @ \ modified ]
    IN IF total_size_bytes = 0 THEN [ c |-> c1, clean |-> TRUE ]
       ELSE [ c |-> MappedUploadMemory(c1, buffer_id, total_size_bytes, copies,
                                       staging_offset),
              clean |-> FALSE ]

SynchronizeBufferImpl(c, buffer_id, cpu_addr, size, staging_offset) ==
    LET buffer == c.slot_buffers[buffer_id]
        modified == buffer.cpu \cap Range(cpu_addr, size)
        ranges == RangesOf(buffer, modified)
        packed == PackedOffsets(ranges, 0)
        copies == [ i \in 1 .. Len(ranges) |->
                      [ src_offset |-> packed[i], dst_offset |-> ranges[i].offset,
                        size |-> ranges[i].size ] ]
        total_size_bytes == TotalSize(ranges)
        c1 == [ c EXCEPT !.slot_buffers[buffer_id].cpu = @ \ modified ]
    IN IF total_size_bytes = 0 THEN [ c |-> c1, clean |-> TRUE ]
       ELSE [ c |-> MappedUploadMemory(c1, buffer_id, total_size_bytes, copies,
                                       staging_offset),
              clean |-> FALSE ]

SynchronizeBuffer(c, buffer_id, cpu_addr, size, staging_offset) ==
    IF c.slot_buffers[buffer_id].cpu_addr = 0 THEN [ c |-> c, clean |-> TRUE ]
    ELSE SynchronizeBufferImpl(c, buffer_id, cpu_addr, size, staging_offset)

\* ------------------------------------------------------------ download
\* cpu_memory.WriteBlockUnsafe of every copy, from the mapped staging memory.
RECURSIVE WriteBack(_, _, _, _)
WriteBack(mem, staging, c, downloads) ==
    IF downloads = << >> THEN mem
    ELSE LET copy == Head(downloads).copy
             buffer == c.slot_buffers[Head(downloads).buffer_id]
             copy_cpu_addr == buffer.cpu_addr + copy.src_offset
         IN WriteBack(CopyOne(mem, staging,
                              [ src_offset |-> copy.dst_offset, dst_offset |-> copy_cpu_addr,
                                size |-> copy.size ]),
                      staging, c, Tail(downloads))

\* The staging buffer after runtime.CopyBuffer(staging, buffer, copy) of each download.
RECURSIVE StageDownloads(_, _, _)
StageDownloads(staging, c, downloads) ==
    IF downloads = << >> THEN staging
    ELSE StageDownloads(CopyOne(staging, c.slot_buffers[Head(downloads).buffer_id].host,
                                Head(downloads).copy),
                        c, Tail(downloads))

\* The (copy, buffer_id) pairs of the download ranges of buffer_id, packed from total on.
DownloadsOf(buffer_id, ranges, total, staging_offset) ==
    LET packed == PackedOffsets(ranges, total)
    IN [ i \in 1 .. Len(ranges) |->
           [ copy |-> [ src_offset |-> ranges[i].offset,
                        dst_offset |-> packed[i] + staging_offset,
                        size |-> ranges[i].size ],
             buffer_id |-> buffer_id ] ]

\* DownloadBuffer that writes every copy back at the start of the buffer.
DownloadBufferAtBase(c, buffer_id, cpu_addr, size, staging_offset) ==
    LET buffer == c.slot_buffers[buffer_id]
        modified == buffer.gpu \cap Range(cpu_addr, size)
        ranges == RangesOf(buffer, modified)
        total_size_bytes == TotalSize(ranges)
        downloads == DownloadsOf(buffer_id, ranges, 0, staging_offset)
        c1 == [ c EXCEPT !.slot_buffers[buffer_id].gpu = @ \ modified ]
        staging == StageDownloads(StagingBuffer(staging_offset, total_size_bytes),
                                  c1, downloads)
        based == [ i \in 1 .. Len(downloads) |->
                     [ downloads[i] EXCEPT !.copy.src_offset = 0 ] ]
    IN IF total_size_bytes = 0 THEN c1
       ELSE [ c1 EXCEPT !.cpu_memory = WriteBack(@, staging, c1, based) ]

\* The callback of DownloadMemory on one buffer.
DownloadBuffer(c, buffer_id, cpu_addr, size, staging_offset) ==
    LET buffer == c.slot_buffers[buffer_id]
        modified == buffer.gpu \cap Range(cpu_addr, size)
        ranges == RangesOf(buffer, modified)
        total_size_bytes == TotalSize(ranges)
        downloads == DownloadsOf(buffer_id, ranges, 0, staging_offset)
        c1 == [ c EXCEPT !.slot_buffers[buffer_id].gpu = @ \ modified ]
        staging == StageDownloads(StagingBuffer(staging_offset, total_size_bytes),
                                  c1, downloads)
    IN IF total_size_bytes = 0 THEN c1
       ELSE [ c1 EXCEPT !.cpu_memory = WriteBack(@, staging, c1, downloads) ]

RECURSIVE DownloadEach(_, _, _, _, _)
DownloadEach(c, ids, cpu_addr, size, staging_offset) ==
    IF ids = << >> THEN c
    ELSE DownloadEach(DownloadBuffer(c, Head(ids), cpu_addr, size, staging_offset),
                      Tail(ids), cpu_addr, size, staging_offset)

DownloadMemory(c, cpu_addr, size, staging_offset) ==
    DownloadEach(c, ForEachBufferInRange(c, cpu_addr, size), cpu_addr, size, staging_offset)

\* The first loop of PopAsyncFlushes: r carries the cache (the enumeration clears
\* the GPU-modified state), the downloads and total_size_bytes.
RECURSIVE GatherDownloads(_, _, _)
GatherDownloads(r, download_ids, staging_offset) ==
    IF download_ids = << >> THEN r
    ELSE LET buffer_id == Head(download_ids)
             buffer == r.c.slot_buffers[buffer_id]
             ranges == RangesOf(buffer, buffer.gpu)
         IN GatherDownloads(
                [ c |-> [ r.c EXCEPT !.slot_buffers[buffer_id].gpu = {} ],
                  downloads |-> r.downloads \o
                      DownloadsOf(buffer_id, ranges, r.total_size_bytes, staging_offset),
                  total_size_bytes |-> r.total_size_bytes + TotalSize(ranges) ],
                Tail(download_ids), staging_offset)

\* pop_front in place of pop_back.
PopFront(s) == SubSeq(s, 2, Len(s))

PopBack(s) == SubSeq(s, 1, Len(s) - 1)

PopAsyncFlushes(c, staging_offset) ==
    IF c.committed_downloads = << >> THEN c
    ELSE
    LET download_ids == c.committed_downloads[Len(c.committed_downloads)]
        r == GatherDownloads([ c |-> c, downloads |-> << >>, total_size_bytes |-> 0 ],
                             download_ids, staging_offset)
        staging == StageDownloads(StagingBuffer(staging_offset, r.total_size_bytes),
                                  r.c, r.downloads)
        c1 == IF download_ids = << >> THEN c
              ELSE IF r.downloads = << >> THEN r.c
              ELSE [ r.c EXCEPT !.cpu_memory = WriteBack(@, staging, r.c, r.downloads) ]
    IN [ c1 EXCEPT !.committed_downloads = PopBack(@) ]

\* A commit that leaves uncommitted_downloads as it is.
CommitAsyncFlushesNoClear(c) ==
    [ c EXCEPT !.committed_downloads = << c.uncommitted_downloads >> \o @ ]

CommitAsyncFlushes(c) ==
    [ c EXCEPT !.committed_downloads = << c.uncommitted_downloads >> \o @,
               !.uncommitted_downloads = << >> ]

HasUncommittedFlushes(c) == c.uncommitted_downloads # << >>

\* front() is the list committed last: CommitAsyncFlushes pushes at the front.
ShouldWaitAsyncFlushes(c) ==
    c.committed_downloads # << >> /\ Head(c.committed_downloads) # << >>

\* BufferBase::IsRegionGpuModified: a GPU-modified byte in the guest range.
BufferIsRegionGpuModified(b, addr, size) == Range(addr, size) \cap b.gpu # {}

\* The loop of IsRegionGpuModified from page on.
RECURSIVE RegionGpuModifiedFrom(_, _, _, _)
RegionGpuModifiedFrom(c, page, addr, size) ==
    IF page >= DivCeil(addr + size, PAGE_SIZE) THEN FALSE
    ELSE LET image_id == PageAt(c.page_table, page)
         IN IF image_id = INVALID_ID
            THEN RegionGpuModifiedFrom(c, page + 1, addr, size)
            ELSE LET buffer == c.slot_buffers[image_id]
                 IN \/ BufferIsRegionGpuModified(buffer, addr, size)
                    \/ RegionGpuModifiedFrom(
                           c, DivCeil(buffer.cpu_addr + buffer.size, PAGE_SIZE), addr, size)

IsRegionGpuModified(c, addr, size) ==
    RegionGpuModifiedFrom(c, addr \div PAGE_SIZE, addr, size)

\* ------------------------------------------------------------ uniform buffer heuristic
\* std::reduce of a window.  The counters are u32; the sums and the products of
\* TickFrame wrap only past 2^24 binds in the window, far beyond MaxShots.
Reduce(window) ==
    LET sum[i \in 0 .. UNIFORM_CACHE_WINDOW] ==
            IF i = 0 THEN 0 ELSE sum[i - 1] + window[i]
    IN sum[UNIFORM_CACHE_WINDOW]

\* std::copy_n(begin, size - 1, begin + 1), then element 0 = 0.  Source and
\* destination overlap and the standard leaves the order of the assignments
\* open: copied as a block (memmove) every element moves up by one; assigned
\* one by one from the front every element receives the old element 0.
CopyOrders == { "block", "front_to_back" }

ShiftWindow(window, order) ==
    [ i \in 1 .. UNIFORM_CACHE_WINDOW |->
        IF i = 1 THEN 0
        ELSE IF order = "block" THEN window[i - 1] ELSE window[1] ]

\* TickFrame that sums the windows after it has shifted them.
TickFrameSumsAfterShift(c, order) ==
    LET shifted_hits == ShiftWindow(c.uniform_cache_hits, order)
        shifted_shots == ShiftWindow(c.uniform_cache_shots, order)
        skip_preferred ==
            Reduce(shifted_hits) * 256 < Reduce(shifted_shots) * 251
    IN [ c EXCEPT !.uniform_cache_hits = shifted_hits,
                  !.uniform_cache_shots = shifted_shots,
                  !.uniform_buffer_skip_cache_size =
                      IF skip_preferred THEN DEFAULT_SKIP_CACHE_SIZE ELSE 0 ]

\* TickFrame that shifts the window of the shots only.
TickFrameShiftsShotsOnly(c, order) ==
    LET hits == Reduce(c.uniform_cache_hits)
        shots == Reduce(c.uniform_cache_shots)
        skip_preferred == hits * 256 < shots * 251
    IN [ c EXCEPT !.uniform_cache_shots = ShiftWindow(@, order),
                  !.uniform_buffer_skip_cache_size =
                      IF skip_preferred THEN DEFAULT_SKIP_CACHE_SIZE ELSE 0 ]

\* (delayed_destruction_ring.Tick() frees buffers that are deleted already.)
TickFrame(c, order) ==
    LET hits == Reduce(c.uniform_cache_hits)
        shots == Reduce(c.uniform_cache_shots)
        skip_preferred == hits * 256 < shots * 251
    IN [ c EXCEPT !.uniform_cache_hits = ShiftWindow(@, order),
                  !.uniform_cache_shots = ShiftWindow(@, order),
                  !.uniform_buffer_skip_cache_size =
                      IF skip_preferred THEN DEFAULT_SKIP_CACHE_SIZE ELSE 0 ]

HasFastUniformBufferBound(c) == IS_OPENGL /\ c.fast_bound_uniform_buffers

\* The calls of the runtime that bind or fill a fast uniform buffer.
FastCalls == { "BindFastUniformBuffer", "PushFastUniformBuffer", "BindMappedUniformBuffer" }

\* BindHostGraphicsUniformBuffer that does not ask whether the range is
\* GPU-modified.
BindHostGraphicsUniformBufferNoGpuCheck(c, needs_bind, has_fast_buffer_sub_data, staging_offset) ==
    LET binding == c.bindings["uniform_buffers"]
        use_fast_buffer == /\ binding.buffer_id # NULL_BUFFER_ID
                           /\ binding.size <= c.uniform_buffer_skip_cache_size
    IN IF use_fast_buffer
       THEN [ c |-> [ c EXCEPT !.fast_bound_uniform_buffers = TRUE ],
              calls |-> { "BindMappedUniformBuffer" } ]
       ELSE [ c |-> [ c EXCEPT !.fast_bound_uniform_buffers = FALSE ],
              calls |-> { "BindUniformBuffer" } ]

\* The cache after the call and the calls the runtime received.  needs_bind is
\* the dirty bit of the slot, has_fast_buffer_sub_data the runtime's answer.
BindHostGraphicsUniformBuffer(c, needs_bind, has_fast_buffer_sub_data, staging_offset) ==
    LET binding == c.bindings["uniform_buffers"]
        cpu_addr == binding.cpu_addr
        size == binding.size
        buffer == c.slot_buffers[binding.buffer_id]
        use_fast_buffer == /\ binding.buffer_id # NULL_BUFFER_ID
                           /\ size <= c.uniform_buffer_skip_cache_size
                           /\ ~BufferIsRegionGpuModified(buffer, cpu_addr, size)
    IN IF use_fast_buffer
       THEN IF IS_OPENGL /\ has_fast_buffer_sub_data
            THEN [ c |-> c,
                   calls |-> (IF HasFastUniformBufferBound(c) THEN {}
                              ELSE { "BindFastUniformBuffer" })
                             \cup { "PushFastUniformBuffer" } ]
            ELSE [ c |-> [ c EXCEPT !.fast_bound_uniform_buffers = TRUE ],
                   calls |-> { "BindMappedUniformBuffer" } ]
       ELSE Only({ IF ~needs_bind /\ ~HasFastUniformBufferBound(c)
                   THEN [ c |-> c1, calls |-> {} ]
                   ELSE [ c |-> [ c1 EXCEPT !.fast_bound_uniform_buffers = FALSE ],
                          calls |-> { "BindUniformBuffer" } ] :
                   c1 \in { [ s.c EXCEPT
                                !.uniform_cache_hits[1] = @ + (IF s.clean THEN 1 ELSE 0),
                                !.uniform_cache_shots[1] = @ + 1 ] :
                            s \in { SynchronizeBuffer(c, binding.buffer_id, cpu_addr,
                                                      size, staging_offset) } } })

\* CachedWriteMemory, one buffer of the range after the other.
RECURSIVE CachedWriteEach(_, _, _, _)
CachedWriteEach(c, ids, cpu_addr, size) ==
    IF ids = << >> THEN c
    ELSE LET buffer_id == Head(ids)
             buffer == c.slot_buffers[buffer_id]
             c1 == IF ~HasCachedWrites(buffer)
                   THEN [ c EXCEPT !.cached_write_buffer_ids = Append(@, buffer_id) ]
                   ELSE c
         IN CachedWriteEach(
                [ c1 EXCEPT !.slot_buffers[buffer_id] = CachedCpuWrite(buffer, cpu_addr, size) ],
                Tail(ids), cpu_addr, size)

CachedWriteMemory(c, cpu_addr, size) ==
    CachedWriteEach(c, ForEachBufferInRange(c, cpu_addr, size), cpu_addr, size)

FlushCachedWrites(c) ==
    LET ids == c.cached_write_buffer_ids
        flushed == { ids[i] : i \in 1 .. Len(ids) }
    IN [ c EXCEPT !.slot_buffers =
                     [ id \in DOMAIN @ |-> IF id \in flushed
                                           THEN FlushBufferCachedWrites(@[id])
                                           ELSE @[id] ],
                  !.cached_write_buffer_ids = << >> ]

WriteMemory(c, cpu_addr, size) ==
    LET ids == ForEachBufferInRange(c, cpu_addr, size)
        touched == { ids[i] : i \in 1 .. Len(ids) }
    IN [ c EXCEPT !.slot_buffers =
           [ id \in DOMAIN @ |-> IF id \in touched
                                 THEN MarkRegionAsCpuModified(@[id], cpu_addr, size)
                                 ELSE @[id] ] ]

\* ------------------------------------------------------------ Update*
SetBinding(c, table, binding) == [ c EXCEPT !.bindings[table] = binding ]

\* binding = Binding{cpu_addr, size, FindBuffer(cpu_addr, size)}
ResolveInto(c, table, cpu_addr, size) ==
    Only({ [ c |-> SetBinding(f.c, table, Binding(cpu_addr, size, f.id)), id |-> f.id ] :
             f \in { FindBuffer(c, cpu_addr, size) } })

UpdateIndexBuffer(c) ==
    LET index_array == c.regs.index_array
    IN IF ~c.flags.IndexBuffer /\ c.last_index_count = index_array.count THEN c
       ELSE
       LET c1 == [ c EXCEPT !.flags.IndexBuffer = FALSE,
                            !.last_index_count = index_array.count ]
           cpu_addr == index_array.cpu_addr
           address_size == index_array.address_size
           draw_size == index_array.count * index_array.format_size
           size == Min(address_size, draw_size)
       IN IF size = 0 \/ cpu_addr = NO_CPU_ADDR
          THEN SetBinding(c1, "index_buffer", NULL_BINDING)
          ELSE ResolveInto(c1, "index_buffer", cpu_addr, size).c

UpdateVertexBuffer(c) ==
    IF ~c.flags.VertexBuffer0 THEN c
    ELSE LET array == c.regs.vertex_array
             cpu_addr == array.cpu_addr
             size == array.address_size
         IN IF ~array.enable \/ size = 0 \/ cpu_addr = NO_CPU_ADDR
            THEN SetBinding(c, "vertex_buffers", NULL_BINDING)
            ELSE ResolveInto(c, "vertex_buffers", cpu_addr, size).c

UpdateVertexBuffers(c) ==
    IF ~c.flags.VertexBuffers THEN c
    ELSE UpdateVertexBuffer([ c EXCEPT !.flags.VertexBuffers = FALSE ])

UpdateTransformFeedbackBuffer(c) ==
    LET binding == c.regs.tfb_bindings
        size == binding.buffer_size
        cpu_addr == binding.cpu_addr
    IN IF ~binding.buffer_enable \/ size = 0 \/ cpu_addr = NO_CPU_ADDR
       THEN SetBinding(c, "transform_feedback_buffers", NULL_BINDING)
       ELSE Only({ MarkWrittenBuffer(r.c, r.id, cpu_addr, size) :
                     r \in { ResolveInto(c, "transform_feedback_buffers", cpu_addr, size) } })

UpdateTransformFeedbackBuffers(c) ==
    IF ~c.regs.tfb_enabled THEN c ELSE UpdateTransformFeedbackBuffer(c)

UpdateUniformBuffers(c) ==
    IF ~c.masks.enabled_uniform_buffers THEN c
    ELSE LET binding == c.bindings["uniform_buffers"]
         IN IF binding.buffer_id # INVALID_ID THEN c
            ELSE Only({ [ f.c EXCEPT !.bindings["uniform_buffers"].buffer_id = f.id ] :
                          f \in { FindBuffer(
                                      [ c EXCEPT !.dirty_uniform_buffers =
                                            @ \/ HAS_PERSISTENT_UNIFORM_BUFFER_BINDINGS ],
                                      binding.cpu_addr, binding.size) } })

\* The loop body of UpdateStorageBuffers and of UpdateComputeStorageBuffers.
UpdateStorageBinding(c, table, written) ==
    LET binding == c.bindings[table]
    IN Only({ IF written
              THEN MarkWrittenBuffer([ f.c EXCEPT !.bindings[table].buffer_id = f.id ],
                                     f.id, binding.cpu_addr, binding.size)
              ELSE [ f.c EXCEPT !.bindings[table].buffer_id = f.id ] :
              f \in { FindBuffer(c, binding.cpu_addr, binding.size) } })

UpdateStorageBuffers(c) ==
    IF ~c.masks.enabled_storage_buffers THEN c
    ELSE UpdateStorageBinding(c, "storage_buffers", c.masks.written_storage_buffers)

UpdateComputeUniformBuffers(c) ==
    IF ~c.masks.enabled_compute_uniform_buffers THEN c
    ELSE LET cbuf == c.regs.launch_cbuf
             binding == IF cbuf.enable /\ cbuf.cpu_addr # NO_CPU_ADDR
                        THEN Binding(cbuf.cpu_addr, cbuf.size, NULL_BUFFER_ID)
                        ELSE NULL_BINDING
         IN Only({ [ f.c EXCEPT !.bindings["compute_uniform_buffers"].buffer_id = f.id ] :
                   f \in { FindBuffer(SetBinding(c, "compute_uniform_buffers", binding),
                                      binding.cpu_addr, binding.size) } })

UpdateComputeStorageBuffers(c) ==
    IF ~c.masks.enabled_compute_storage_buffers THEN c
    ELSE UpdateStorageBinding(c, "compute_storage_buffers",
                              c.masks.written_compute_storage_buffers)

DoUpdateGraphicsBuffers(c, is_indexed) ==
    Only({ UpdateStorageBuffers(c4) :
             c4 \in { UpdateUniformBuffers(c3) :
             c3 \in { UpdateTransformFeedbackBuffers(c2) :
             c2 \in { UpdateVertexBuffers(c1) :
             c1 \in { IF is_indexed THEN UpdateIndexBuffer(c) ELSE c } } } } })

DoUpdateComputeBuffers(c) ==
    Only({ UpdateComputeStorageBuffers(c1) : c1 \in { UpdateComputeUniformBuffers(c) } })

\* A pass that leaves has_deleted_buffers as the pass before left it.
GraphicsPassNoReset(r, is_indexed) ==
    IF r.passes > 0 /\ ~r.c.has_deleted_buffers THEN r
    ELSE [ c |-> DoUpdateGraphicsBuffers(r.c, is_indexed), passes |-> r.passes + 1 ]

\* One iteration of the do-while loop of UpdateGraphicsBuffers: the first pass
\* always runs, a later one only if the pass before it deleted a buffer.
GraphicsPass(r, is_indexed) ==
    IF r.passes > 0 /\ ~r.c.has_deleted_buffers THEN r
    ELSE [ c |-> DoUpdateGraphicsBuffers([ r.c EXCEPT !.has_deleted_buffers = FALSE ],
                                         is_indexed),
           passes |-> r.passes + 1 ]

ComputePass(r) ==
    IF r.passes > 0 /\ ~r.c.has_deleted_buffers THEN r
    ELSE [ c |-> DoUpdateComputeBuffers([ r.c EXCEPT !.has_deleted_buffers = FALSE ]),
           passes |-> r.passes + 1 ]

\* The loop, followed for at most MaxPasses passes: the cache it leaves and the
\* passes it ran.  has_deleted_buffers still set in the result means that the
\* loop had not ended by then.
GraphicsLoop(c, is_indexed) ==
    LET pass[n \in 0 .. MaxPasses] ==
            IF n = 0 THEN [ c |-> c, passes |-> 0 ]
            ELSE Only({ GraphicsPass(r, is_indexed) : r \in { pass[n - 1] } })
    IN pass[MaxPasses]

ComputeLoop(c) ==
    LET pass[n \in 0 .. MaxPasses] ==
            IF n = 0 THEN [ c |-> c, passes |-> 0 ]
            ELSE Only({ ComputePass(r) : r \in { pass[n - 1] } })
    IN pass[MaxPasses]

UpdateGraphicsBuffers(c, is_indexed) == GraphicsLoop(c, is_indexed).c

UpdateComputeBuffers(c) == ComputeLoop(c).c

StorageBufferBinding(cpu_addr, size, bytes_to_map_end) ==
    IF cpu_addr = NO_CPU_ADDR \/ size = 0 THEN NULL_BINDING
    ELSE Binding(cpu_addr, Min(size + ARBITRARY_EXTRA_BYTES, bytes_to_map_end), INVALID_ID)

\* ------------------------------------------------------------ initial state
Tables == { "index_buffer", "vertex_buffers", "uniform_buffers", "storage_buffers",
            "transform_feedback_buffers", "compute_uniform_buffers",
            "compute_storage_buffers" }

InitRegs ==
    [ index_array |-> [ cpu_addr |-> NO_CPU_ADDR, address_size |-> 0, count |-> 0,
                        format_size |-> 4 ],
      vertex_array |-> [ cpu_addr |-> NO_CPU_ADDR, address_size |-> 0, enable |-> FALSE ],
      tfb_enabled |-> FALSE,
      tfb_bindings |-> [ cpu_addr |-> NO_CPU_ADDR, buffer_size |-> 0,
                         buffer_enable |-> FALSE ],
      launch_cbuf |-> [ enable |-> FALSE, cpu_addr |-> NO_CPU_ADDR, size |-> 0 ] ]

InitMasks ==
    [ enabled_uniform_buffers |-> FALSE, enabled_storage_buffers |-> FALSE,
      written_storage_buffers |-> FALSE, enabled_compute_uniform_buffers |-> FALSE,
      enabled_compute_storage_buffers |-> FALSE,
      written_compute_storage_buffers |-> FALSE ]

Init ==
    /\ slot_buffers = [ i \in { NULL_BUFFER_ID } |-> NullBuffer ]
    /\ page_table = << >>
    /\ bindings = [ k \in Tables |-> Binding(0, 0, INVALID_ID) ]
    /\ masks = InitMasks
    /\ regs = InitRegs
    /\ flags = [ IndexBuffer |-> TRUE, VertexBuffers |-> TRUE, VertexBuffer0 |-> TRUE ]
    /\ last_index_count = 0
    /\ uncommitted_downloads = << >>
    /\ committed_downloads = << >>
    /\ has_deleted_buffers = FALSE
    /\ cpu_memory = [ g \in MemGranules |-> GuestVal(g) ]
    /\ fast_bound_uniform_buffers = FALSE
    /\ uniform_cache_hits = [ i \in 1 .. UNIFORM_CACHE_WINDOW |-> 0 ]
    /\ uniform_cache_shots = [ i \in 1 .. UNIFORM_CACHE_WINDOW |-> 0 ]
    /\ uniform_buffer_skip_cache_size = DEFAULT_SKIP_CACHE_SIZE
    /\ dirty_uniform_buffers = FALSE
    /\ cached_write_buffer_ids = << >>

\* ------------------------------------------------------------ inputs
\* Guest addresses and sizes of requests: multiples of Unit inside the memory.
Addrs == { g * Unit : g \in 1 .. MemUnits - 1 }
Sizes == { k * Unit : k \in 1 .. MaxSizeUnits }
\* The sizes of a resolved binding: a uniform buffer may be bound with size 0.
FindSizes == { 0 } \cup Sizes
InMemory(a, s) == a + s <= MemEnd
\* The offset of a staging lease inside the runtime's staging buffer.
StagingOffsets == { 0, Unit }
SettingsOff == [ gpu_level_high |-> FALSE, use_asynchronous_gpu_emulation |-> FALSE ]
AllSettings == [ gpu_level_high : BOOLEAN, use_asynchronous_gpu_emulation : BOOLEAN ]

\* ------------------------------------------------------------ actions
Install(c) ==
    /\ slot_buffers' = c.slot_buffers
    /\ page_table' = c.page_table
    /\ bindings' = c.bindings
    /\ flags' = c.flags
    /\ uncommitted_downloads' = c.uncommitted_downloads
    /\ committed_downloads' = c.committed_downloads
    /\ has_deleted_buffers' = c.has_deleted_buffers
    /\ cpu_memory' = c.cpu_memory
    /\ masks' = c.masks
    /\ regs' = c.regs
    /\ last_index_count' = c.last_index_count
    /\ fast_bound_uniform_buffers' = c.fast_bound_uniform_buffers
    /\ uniform_cache_hits' = c.uniform_cache_hits
    /\ uniform_cache_shots' = c.uniform_cache_shots
    /\ uniform_buffer_skip_cache_size' = c.uniform_buffer_skip_cache_size
    /\ dirty_uniform_buffers' = c.dirty_uniform_buffers
    /\ cached_write_buffer_ids' = c.cached_write_buffer_ids

\* The model makes at most MaxBuffers buffers.
WithinBuffers(c) == NextId(c) <= MaxBuffers + 1

\* The buffer a resolved binding of [a, a + s) refers to.
Resolved(id, a, s) ==
    /\ id \in DOMAIN slot_buffers
    /\ id # NULL_BUFFER_ID
    /\ slot_buffers[id].live
    /\ IsInBounds(slot_buffers[id], a, s)

\* The requests << a, s >> of a resolve with a size of SS that end at or before end.
RequestsIn(SS, end) == { r \in Addrs \X SS : r[1] + r[2] <= end }

\* The requests of a resolve of the null address.
NullRequests == { 0 } \X FindSizes

\* An Update* function resolves a binding of [a, a + s).
ActFindBuffer(RS) ==
    \E r \in RS :
        LET f == FindBuffer(Cache, r[1], r[2])
        IN WithinBuffers(f.c) /\ Install(f.c)

\* An Update* function marks the binding it has just resolved as written.
ActMarkWrittenBuffer(ST) ==
    \E a \in Addrs, s \in Sizes, st \in ST :
        LET id == PageAt(page_table, a \div PAGE_SIZE)
        IN /\ Resolved(id, a, s)
           /\ Install(MarkWrittenBuffer(CacheWith(st), id, a, s))

\* A BindHost* function synchronizes the buffer of a resolved binding.
ActSynchronizeBuffer ==
    \E id \in DOMAIN slot_buffers, a \in Addrs, s \in Sizes,
       staging_offset \in StagingOffsets :
        /\ Resolved(id, a, s)
        /\ Install(SynchronizeBuffer(Cache, id, a, s, staging_offset).c)

\* The guest stores its content into [a, a + s) and the memory-write notifier
\* reports the write.
GuestWrite(c, a, s) ==
    [ WriteMemory(c, a, s) EXCEPT
        !.cpu_memory = [ g \in MemGranules |->
                           IF g \in Range(a, s) THEN GuestVal(g) ELSE @[g] ] ]

ActWriteMemory ==
    \E a \in Addrs, s \in Sizes :
        /\ InMemory(a, s)
        /\ Install(GuestWrite(Cache, a, s))

\* The guest stores into [a, a + s) and the notifier queues the write.
GuestCachedWrite(c, a, s) ==
    [ CachedWriteMemory(c, a, s) EXCEPT
        !.cpu_memory = [ g \in MemGranules |->
                           IF g \in Range(a, s) THEN GuestVal(g) ELSE @[g] ] ]

ActCachedWriteMemory ==
    \E a \in Addrs, s \in Sizes :
        /\ InMemory(a, s)
        /\ Install(GuestCachedWrite(Cache, a, s))

ActFlushCachedWrites == Install(FlushCachedWrites(Cache))

ActDownloadMemory ==
    \E a \in Addrs, s \in Sizes, staging_offset \in StagingOffsets :
        /\ InMemory(a, s)
        /\ Install(DownloadMemory(Cache, a, s, staging_offset))

ActCommitAsyncFlushes ==
    /\ Len(committed_downloads) < MaxCommitted
    /\ Install(CommitAsyncFlushes(Cache))

ActPopAsyncFlushes ==
    \E staging_offset \in StagingOffsets :
        Install(PopAsyncFlushes(Cache, staging_offset))

\* The host GPU executes a draw: it writes the ranges of a buffer marked as written.
GpuWrite(c, id) ==
    LET buffer == c.slot_buffers[id]
        g0 == buffer.cpu_addr \div Unit
    IN [ c EXCEPT !.slot_buffers[id].host =
           [ o \in DOMAIN @ |-> IF g0 + o \in buffer.gpu THEN GpuVal(g0 + o) ELSE @[o] ] ]

\* A draw or dispatch that writes a resolved binding: the Update* function marks
\* it as written and the host GPU then writes the marked ranges of the buffer.
ActDraw(ST) ==
    \E a \in Addrs, s \in Sizes, st \in ST :
        LET id == PageAt(page_table, a \div PAGE_SIZE)
        IN /\ Resolved(id, a, s)
           /\ Install(GpuWrite(MarkWrittenBuffer(CacheWith(st), id, a, s), id))

\* ------------------------------------------------------------ binding requests
\* The requests of the binding actions: the two halves of page 1.
BindAddrs == { PAGE_SIZE, PAGE_SIZE + Unit }
BindSize == Unit

\* The binding classes the guest has used so far: a class is used once its
\* registers, its mask or its binding left their initial values.  The index,
\* vertex and transform feedback bindings are rewritten from the registers by
\* every update, so for them the registers tell.
Configured ==
    { k \in Tables :
        \/ /\ k \notin { "index_buffer", "vertex_buffers", "transform_feedback_buffers" }
           /\ bindings[k] # Binding(0, 0, INVALID_ID)
        \/ k = "index_buffer" /\ regs.index_array # InitRegs.index_array
        \/ k = "vertex_buffers" /\ regs.vertex_array # InitRegs.vertex_array
        \/ k = "transform_feedback_buffers"
              /\ (regs.tfb_enabled \/ regs.tfb_bindings # InitRegs.tfb_bindings)
        \/ k = "uniform_buffers" /\ masks.enabled_uniform_buffers
        \/ k = "storage_buffers" /\ masks.enabled_storage_buffers
        \/ k = "compute_uniform_buffers"
              /\ (masks.enabled_compute_uniform_buffers
                  \/ regs.launch_cbuf # InitRegs.launch_cbuf)
        \/ k = "compute_storage_buffers" /\ masks.enabled_compute_storage_buffers }

MayConfigure(k) == Cardinality(Configured \ { k }) < MaxConfigured

\* The register values the guest writes for one binding class: enabled with one
\* of the addresses, or disabled with the address left in place.
ArrayWrites ==
    { [ cpu_addr |-> a, size |-> BindSize, enable |-> TRUE ] : a \in BindAddrs }
        \cup { [ cpu_addr |-> PAGE_SIZE, size |-> 0, enable |-> FALSE ] }

\* The guest writes the index array registers; the rasterizer's dirty tracking
\* flags the index buffer.  A size of 0 is an empty index array.
ActSetIndexArray(W) ==
    \E w \in W :
        /\ MayConfigure("index_buffer")
        /\ regs' = [ regs EXCEPT !.index_array.cpu_addr = w.cpu_addr,
                                 !.index_array.address_size = w.size,
                                 !.index_array.count = w.size \div regs.index_array.format_size ]
        /\ flags' = [ flags EXCEPT !.IndexBuffer = TRUE ]
        /\ UNCHANGED << slot_buffers, page_table, bindings, masks, last_index_count,
                        uncommitted_downloads, committed_downloads,
                        has_deleted_buffers, cpu_memory, fast_bound_uniform_buffers,
                        uniform_cache_hits, uniform_cache_shots,
                        uniform_buffer_skip_cache_size, dirty_uniform_buffers,
                        cached_write_buffer_ids >>

ActSetVertexArray(W) ==
    \E w \in W :
        /\ MayConfigure("vertex_buffers")
        /\ regs' = [ regs EXCEPT !.vertex_array =
                       [ cpu_addr |-> w.cpu_addr, address_size |-> w.size,
                         enable |-> w.enable ] ]
        /\ flags' = [ flags EXCEPT !.VertexBuffers = TRUE, !.VertexBuffer0 = TRUE ]
        /\ UNCHANGED << slot_buffers, page_table, bindings, masks, last_index_count,
                        uncommitted_downloads, committed_downloads,
                        has_deleted_buffers, cpu_memory, fast_bound_uniform_buffers,
                        uniform_cache_hits, uniform_cache_shots,
                        uniform_buffer_skip_cache_size, dirty_uniform_buffers,
                        cached_write_buffer_ids >>

ActSetTransformFeedback(W) ==
    \E w \in W :
        /\ MayConfigure("transform_feedback_buffers")
        /\ regs' = [ regs EXCEPT !.tfb_enabled = w.enable,
                       !.tfb_bindings = [ cpu_addr |-> w.cpu_addr, buffer_size |-> w.size,
                                          buffer_enable |-> w.enable ] ]
        /\ UNCHANGED << slot_buffers, page_table, bindings, masks, flags,
                        last_index_count, uncommitted_downloads, committed_downloads,
                        has_deleted_buffers, cpu_memory, fast_bound_uniform_buffers,
                        uniform_cache_hits, uniform_cache_shots,
                        uniform_buffer_skip_cache_size, dirty_uniform_buffers,
                        cached_write_buffer_ids >>

ActSetLaunchDescription(W) ==
    \E w \in W :
        /\ MayConfigure("compute_uniform_buffers")
        /\ regs' = [ regs EXCEPT !.launch_cbuf =
                       [ enable |-> w.enable, cpu_addr |-> w.cpu_addr, size |-> w.size ] ]
        /\ UNCHANGED << slot_buffers, page_table, bindings, masks, flags,
                        last_index_count, uncommitted_downloads, committed_downloads,
                        has_deleted_buffers, cpu_memory, fast_bound_uniform_buffers,
                        uniform_cache_hits, uniform_cache_shots,
                        uniform_buffer_skip_cache_size, dirty_uniform_buffers,
                        cached_write_buffer_ids >>

\* The guest binds a constant buffer of any size, 0 included.
UniformBinds == (BindAddrs \X { BindSize }) \cup { << PAGE_SIZE, 0 >> }

\* The constant buffers of the uniform heuristic: empty, smaller than
\* DEFAULT_SKIP_CACHE_SIZE, larger.
SmallUniformBinds == { << PAGE_SIZE, 0 >>, << PAGE_SIZE, 64 >>, << PAGE_SIZE, BindSize >> }

\* What *cpu_addr reads when GpuToCpuAddress found no mapping: the optional is
\* empty and its payload is whatever the storage holds.
Disengaged == { 0, PAGE_SIZE }

BindGraphicsUniformBuffer(c, cpu_addr, size, payload) ==
    [ c EXCEPT !.bindings["uniform_buffers"] =
        Binding(IF cpu_addr = NO_CPU_ADDR THEN payload ELSE cpu_addr, size, INVALID_ID) ]

ActBindGraphicsUniformBuffer(W) ==
    \E w \in W, payload \in Disengaged :
        /\ MayConfigure("uniform_buffers")
        /\ Install(BindGraphicsUniformBuffer(Cache, w[1], w[2], payload))

ActDisableGraphicsUniformBuffer ==
    /\ MayConfigure("uniform_buffers")
    /\ Install([ Cache EXCEPT !.bindings["uniform_buffers"] = NULL_BINDING ])

ActSetEnabledUniformBuffers ==
    \E enabled \in BOOLEAN :
        /\ MayConfigure("uniform_buffers")
        /\ Install([ Cache EXCEPT
               !.dirty_uniform_buffers =
                   @ \/ (/\ HAS_PERSISTENT_UNIFORM_BUFFER_BINDINGS
                         /\ masks.enabled_uniform_buffers # enabled),
               !.masks.enabled_uniform_buffers = enabled ])

ActSetEnabledComputeUniformBuffers ==
    \E enabled \in BOOLEAN :
        /\ MayConfigure("compute_uniform_buffers")
        /\ Install([ Cache EXCEPT !.masks.enabled_compute_uniform_buffers = enabled ])

\* The descriptor read from guest memory: (address, size), and the bytes left in
\* the GPU mapping of the address.
StorageSizes == { 0, Unit \div 2 }

ActBindGraphicsStorageBuffer(A, S) ==
    \E a \in A, size \in S, is_written \in BOOLEAN :
        /\ MayConfigure("storage_buffers")
        /\ Install([ Cache EXCEPT
               !.masks.enabled_storage_buffers = TRUE,
               !.masks.written_storage_buffers = @ \/ is_written,
               !.bindings["storage_buffers"] = StorageBufferBinding(a, size, BindSize) ])

ActUnbindGraphicsStorageBuffers ==
    Install([ Cache EXCEPT !.masks.enabled_storage_buffers = FALSE,
                           !.masks.written_storage_buffers = FALSE ])

ActBindComputeStorageBuffer(A, S) ==
    \E a \in A, size \in S, is_written \in BOOLEAN :
        /\ MayConfigure("compute_storage_buffers")
        /\ Install([ Cache EXCEPT
               !.masks.enabled_compute_storage_buffers = TRUE,
               !.masks.written_compute_storage_buffers = @ \/ is_written,
               !.bindings["compute_storage_buffers"] =
                   StorageBufferBinding(a, size, BindSize) ])

ActUnbindComputeStorageBuffers ==
    Install([ Cache EXCEPT !.masks.enabled_compute_storage_buffers = FALSE,
                           !.masks.written_compute_storage_buffers = FALSE ])

ActUpdateGraphicsBuffers(ST) ==
    \E is_indexed \in BOOLEAN, st \in ST :
        \E c \in { UpdateGraphicsBuffers(CacheWith(st), is_indexed) } :
            ~c.has_deleted_buffers /\ WithinBuffers(c) /\ Install(c)

ActUpdateComputeBuffers(ST) ==
    \E st \in ST :
        \E c \in { UpdateComputeBuffers(CacheWith(st)) } :
            ~c.has_deleted_buffers /\ WithinBuffers(c) /\ Install(c)

\* BindHostGraphicsUniformBuffers on the bindings an update has resolved: the
\* enabled slot is bound.  The classic path counts a shot; the model follows at
\* most max_shots shots in the window.
\* BindHostGraphicsUniformBuffers that leaves the dirty bits set.
BindHostGraphicsUniformBuffersKeepDirty(c, has_fast_buffer_sub_data, staging_offset) ==
    IF ~c.masks.enabled_uniform_buffers THEN [ c |-> c, calls |-> {} ]
    ELSE BindHostGraphicsUniformBuffer(c, c.dirty_uniform_buffers,
                                       has_fast_buffer_sub_data, staging_offset)

\* BindHostGraphicsUniformBuffers: the dirty bits are taken and cleared, and
\* the enabled slot is bound with its bit as needs_bind.
BindHostGraphicsUniformBuffers(c, has_fast_buffer_sub_data, staging_offset) ==
    LET dirty == IF HAS_PERSISTENT_UNIFORM_BUFFER_BINDINGS
                 THEN c.dirty_uniform_buffers ELSE TRUE
        taken == IF HAS_PERSISTENT_UNIFORM_BUFFER_BINDINGS
                 THEN [ c EXCEPT !.dirty_uniform_buffers = FALSE ] ELSE c
    IN IF ~c.masks.enabled_uniform_buffers THEN [ c |-> taken, calls |-> {} ]
       ELSE BindHostGraphicsUniformBuffer(taken, dirty, has_fast_buffer_sub_data,
                                          staging_offset)

ActBindHostGraphicsUniformBuffers(max_shots) ==
    \E has_fast_buffer_sub_data \in BOOLEAN, staging_offset \in StagingOffsets :
        /\ masks.enabled_uniform_buffers
        /\ bindings["uniform_buffers"].buffer_id \in DOMAIN slot_buffers
        /\ slot_buffers[bindings["uniform_buffers"].buffer_id].live
        /\ Reduce(uniform_cache_shots) < max_shots
        /\ Install(BindHostGraphicsUniformBuffers(Cache, has_fast_buffer_sub_data,
                                                  staging_offset).c)

ActTickFrame == \E order \in CopyOrders : Install(TickFrame(Cache, order))

\* ------------------------------------------------------------ specifications
\* The catalogue and the dirty tracking: resolve, mark, guest writes, uploads.
Next ==
    \/ ActFindBuffer(RequestsIn(FindSizes, MemEnd) \cup NullRequests)
    \/ ActMarkWrittenBuffer({ SettingsOff })
    \/ ActWriteMemory
    \/ ActSynchronizeBuffer

Spec == Init /\ [][Next]_vars

\* The binding tables: the bind requests and the two update passes.
NextBind ==
    \/ ActSetIndexArray(ArrayWrites)
    \/ ActSetVertexArray(ArrayWrites)
    \/ ActSetTransformFeedback(ArrayWrites)
    \/ ActSetLaunchDescription(ArrayWrites)
    \/ ActBindGraphicsUniformBuffer(UniformBinds)
    \/ ActDisableGraphicsUniformBuffer
    \/ ActSetEnabledUniformBuffers
    \/ ActSetEnabledComputeUniformBuffers
    \/ ActBindGraphicsStorageBuffer(BindAddrs, StorageSizes)
    \/ ActUnbindGraphicsStorageBuffers
    \/ ActBindComputeStorageBuffer(BindAddrs, StorageSizes)
    \/ ActUnbindComputeStorageBuffers
    \/ ActUpdateGraphicsBuffers({ SettingsOff })
    \/ ActUpdateComputeBuffers({ SettingsOff })

SpecBind == Init /\ [][NextBind]_vars

\* The asynchronous downloads: resolve (all of memory but its last granule),
\* draws that write with the queue enabled, commit and pop.
SettingsAsync == [ gpu_level_high |-> TRUE, use_asynchronous_gpu_emulation |-> TRUE ]

NextAsync ==
    \/ ActFindBuffer(RequestsIn(Sizes, MemEnd - Unit))
    \/ ActDraw({ SettingsAsync })
    \/ ActCommitAsyncFlushes
    \/ ActPopAsyncFlushes

SpecAsync == Init /\ [][NextAsync]_vars

\* The uniform buffer heuristic: a constant buffer and a written storage buffer
\* on the same page, the updates, the binds and the frame ticks.
NextUniform ==
    \/ ActBindGraphicsUniformBuffer(SmallUniformBinds)
    \/ ActSetEnabledUniformBuffers
    \/ ActBindGraphicsStorageBuffer({ PAGE_SIZE }, { Unit \div 2 })
    \/ ActUpdateGraphicsBuffers({ SettingsOff })
    \/ ActBindHostGraphicsUniformBuffers(MaxShots)
    \/ ActTickFrame

SpecUniform == Init /\ [][NextUniform]_vars

\* Bindings whose GPU address has no mapping, beside mapped ones: every binding
\* class is written with either and updated.
UnmappedWrites ==
    { [ cpu_addr |-> a, size |-> BindSize, enable |-> TRUE ] : a \in { PAGE_SIZE, NO_CPU_ADDR } }
UnmappedBinds == { PAGE_SIZE, NO_CPU_ADDR } \X { BindSize }

NextNull ==
    \/ ActSetIndexArray(UnmappedWrites)
    \/ ActSetVertexArray(UnmappedWrites)
    \/ ActSetTransformFeedback(UnmappedWrites)
    \/ ActSetLaunchDescription(UnmappedWrites)
    \/ ActBindGraphicsUniformBuffer(UnmappedBinds)
    \/ ActSetEnabledUniformBuffers
    \/ ActSetEnabledComputeUniformBuffers
    \/ ActBindGraphicsStorageBuffer({ PAGE_SIZE, NO_CPU_ADDR }, { Unit \div 2 })
    \/ ActBindComputeStorageBuffer({ PAGE_SIZE, NO_CPU_ADDR }, { Unit \div 2 })
    \/ ActUpdateGraphicsBuffers({ SettingsOff })
    \/ ActUpdateComputeBuffers({ SettingsOff })

SpecNull == Init /\ [][NextNull]_vars

\* The download queue fed by the update pass: storage buffer descriptors, mapped
\* or not, are bound as written and updated with the queue enabled, while other
\* bindings are resolved and the queue is committed and popped.
NextQueue ==
    \/ ActBindGraphicsStorageBuffer({ PAGE_SIZE, NO_CPU_ADDR }, { Unit \div 2 })
    \/ ActUpdateGraphicsBuffers({ SettingsAsync })
    \/ ActFindBuffer(RequestsIn(Sizes, MemEnd))
    \/ ActCommitAsyncFlushes
    \/ ActPopAsyncFlushes

SpecQueue == Init /\ [][NextQueue]_vars

\* The queued guest writes: resolve (which coalesces and deletes), queue, flush,
\* upload.
NextCached ==
    \/ ActFindBuffer(RequestsIn(FindSizes, MemEnd))
    \/ ActCachedWriteMemory
    \/ ActFlushCachedWrites
    \/ ActSynchronizeBuffer

SpecCached == Init /\ [][NextCached]_vars

\* Coalescing of buffers that have been joined before.  A range that is bound
\* again and again with a growing extent leaves one buffer whose stream score
\* counts the joins; the catalogue starts with two such buffers, B1 on the
\* second half of page 0 and B2 on page 1, with scores around the threshold of
\* the stream leap.
LeapScores == { 0, 8, 9, STREAM_LEAP_THRESHOLD, STREAM_LEAP_THRESHOLD + 1 }

InitLeap ==
    /\ \E s1 \in LeapScores, s2 \in LeapScores :
          slot_buffers =
              [ i \in 0 .. 2 |->
                  IF i = NULL_BUFFER_ID THEN NullBuffer
                  ELSE IF i = 1 THEN [ NewBuffer(Unit, Unit) EXCEPT !.stream_score = s1 ]
                  ELSE [ NewBuffer(PAGE_SIZE, PAGE_SIZE) EXCEPT !.stream_score = s2 ] ]
    /\ page_table = [ p \in 0 .. 1 |-> p + 1 ]
    /\ bindings = [ k \in Tables |-> Binding(0, 0, INVALID_ID) ]
    /\ masks = InitMasks
    /\ regs = InitRegs
    /\ flags = [ IndexBuffer |-> TRUE, VertexBuffers |-> TRUE, VertexBuffer0 |-> TRUE ]
    /\ last_index_count = 0
    /\ uncommitted_downloads = << >>
    /\ committed_downloads = << >>
    /\ has_deleted_buffers = FALSE
    /\ cpu_memory = [ g \in MemGranules |-> GuestVal(g) ]
    /\ fast_bound_uniform_buffers = FALSE
    /\ uniform_cache_hits = [ i \in 1 .. UNIFORM_CACHE_WINDOW |-> 0 ]
    /\ uniform_cache_shots = [ i \in 1 .. UNIFORM_CACHE_WINDOW |-> 0 ]
    /\ uniform_buffer_skip_cache_size = DEFAULT_SKIP_CACHE_SIZE
    /\ dirty_uniform_buffers = FALSE
    /\ cached_write_buffer_ids = << >>

NextLeap ==
    \/ ActFindBuffer(RequestsIn(FindSizes, MemEnd))
    \/ ActMarkWrittenBuffer({ SettingsOff })

SpecLeap == InitLeap /\ [][NextLeap]_vars

\* The host bindings of one frame: the constant buffer and the written storage
\* buffer are bound and updated, and the uniform slot is bound host-side again
\* and again.
NextHost ==
    \/ ActBindGraphicsUniformBuffer(SmallUniformBinds)
    \/ ActSetEnabledUniformBuffers
    \/ ActBindGraphicsStorageBuffer({ PAGE_SIZE }, { Unit \div 2 })
    \/ ActUpdateGraphicsBuffers({ SettingsOff })
    \/ ActBindHostGraphicsUniformBuffers(MaxFrameShots)

SpecHost == Init /\ [][NextHost]_vars

\* The contents: resolve (one granule at a time), draws that write, guest
\* writes, uploads and downloads.
NextData ==
    \/ ActFindBuffer(RequestsIn({ Unit }, MemEnd))
    \/ ActDraw({ SettingsOff })
    \/ ActWriteMemory
    \/ ActSynchronizeBuffer
    \/ ActDownloadMemory

SpecData == Init /\ [][NextData]_vars

\* ------------------------------------------------------------ catalogue properties
LiveIds == { id \in DOMAIN slot_buffers \ { NULL_BUFFER_ID } : slot_buffers[id].live }

\* The pages the extent [cpu_addr, cpu_addr + size) of a buffer touches.
PagesOf(b) == (b.cpu_addr \div PAGE_SIZE) .. (DivCeil(b.cpu_addr + b.size, PAGE_SIZE) - 1)

AllPages == (0 .. DivCeil(MemEnd, PAGE_SIZE)) \cup DOMAIN page_table

\* The requests of a resolve.
Requests == RequestsIn(FindSizes, MemEnd)

\* The buffers FindBuffer(a, s) would coalesce away in the current state.  (The
\* formulas below bind the result of an operation with a quantifier over a
\* one-element set, so that it is computed once.)
Absorbed(f) == { id \in LiveIds : ~f.c.slot_buffers[id].live }

\* C1: for every live buffer b with address a and size s, page_table[p] = b on
\* exactly the pages a / PAGE_SIZE <= p < ceil((a + s) / PAGE_SIZE), and on no
\* other page.
C1_PageTableExact ==
    \A id \in LiveIds : \A p \in AllPages :
        (PageAt(page_table, p) = id) <=> (p \in PagesOf(slot_buffers[id]))

\* A buffer over two pages stands where a smaller one was coalesced away.
C1_Witness ==
    /\ \E id \in LiveIds : Cardinality(PagesOf(slot_buffers[id])) >= 2
    /\ \E id \in DOMAIN slot_buffers : ~slot_buffers[id].live

\* C2: no two distinct live buffers have extents that touch a common page.
C2_NoSharedPage ==
    \A b1 \in LiveIds, b2 \in LiveIds :
        b1 # b2 => PagesOf(slot_buffers[b1]) \cap PagesOf(slot_buffers[b2]) = {}

\* Two live buffers on different pages, one of them made by a merge.
C2_Witness ==
    /\ \E b1 \in LiveIds, b2 \in LiveIds :
          /\ b1 # b2
          /\ PagesOf(slot_buffers[b1]) # {}
          /\ PagesOf(slot_buffers[b2]) # {}
    /\ \E id \in DOMAIN slot_buffers : ~slot_buffers[id].live

\* The id FindBuffer(a, s) returns is live and its extent contains [a, a + s).
FoundInBounds(f, a, s) ==
    /\ f.id \in DOMAIN f.c.slot_buffers
    /\ f.id # NULL_BUFFER_ID
    /\ f.c.slot_buffers[f.id].live
    /\ IsInBounds(f.c.slot_buffers[f.id], a, s)

\* The page of a maps to the id FindBuffer(a, s) returns.
FoundRegistered(f, a) == PageAt(f.c.page_table, a \div PAGE_SIZE) = f.id

\* C5 as stated: for every a # 0 and every size s, the id FindBuffer(a, s)
\* returns is live, registered in the page table, and contains [a, a + s).
C5_FindBufferRegistered ==
    \A r \in Requests : \A f \in { FindBuffer(Cache, r[1], r[2]) } :
        FoundInBounds(f, r[1], r[2]) /\ FoundRegistered(f, r[1])

\* C35 as stated: FindBuffer is idempotent.  For every a # 0 and every size s,
\* s = 0 with a page-aligned a included, a second FindBuffer(a, s) right after
\* the first returns the same id, creates no buffer and deletes none.
C35_FindBufferIdempotent ==
    \A r \in Requests :
    \A first \in { FindBuffer(Cache, r[1], r[2]) } :
    \A second \in { FindBuffer(first.c, r[1], r[2]) } :
        /\ second.id = first.id
        /\ DOMAIN second.c.slot_buffers = DOMAIN first.c.slot_buffers
        /\ \A id \in DOMAIN first.c.slot_buffers :
              second.c.slot_buffers[id].live = first.c.slot_buffers[id].live

\* C6 as stated: after JoinOverlap(new, old, _), every guest byte that was
\* GPU-modified in old is GPU-modified in new at the same guest address.
C6_JoinKeepsGpuModified ==
    \A r \in Requests : \A f \in { FindBuffer(Cache, r[1], r[2]) } :
        \A old \in Absorbed(f) :
            slot_buffers[old].gpu \subseteq f.c.slot_buffers[f.id].gpu

\* C8: after WriteMemory(a, s) and SynchronizeBuffer(b, a, s) no byte of
\* [a, a + s) is CPU-modified on b, and a second SynchronizeBuffer(b, a, s)
\* enumerates no range, uploads nothing and returns true.
C8_SynchronizeCleans ==
    \A id \in LiveIds, a \in Addrs, s \in Sizes, o \in StagingOffsets :
        InMemory(a, s) =>
            \A first \in { SynchronizeBuffer(WriteMemory(Cache, a, s), id, a, s, o) } :
            \A second \in { SynchronizeBuffer(first.c, id, a, s, o) } :
               /\ first.c.slot_buffers[id].cpu \cap Range(a, s) = {}
               /\ second.clean
               /\ second.c.slot_buffers[id].host = first.c.slot_buffers[id].host
               /\ second.c.slot_buffers[id].cpu = first.c.slot_buffers[id].cpu

\* A buffer holds an uploaded granule that the guest has written again, next to
\* a second modified granule: the next synchronization has two granules to upload.
C8_Witness ==
    \E id \in LiveIds :
        LET b == slot_buffers[id]
        IN /\ Cardinality(b.cpu) >= 2
           /\ \E g \in b.cpu : b.host[g - b.cpu_addr \div Unit] = GuestVal(g)

\* ------------------------------------------------------------ binding properties
\* C3: no entry of the seven binding tables holds the id of a buffer that
\* DeleteBuffer has pushed to the delayed destruction ring.
C3_NoBindingToDeleted ==
    \A k \in Tables :
        bindings[k].buffer_id \in DOMAIN slot_buffers
            => slot_buffers[bindings[k].buffer_id].live

\* The buffer of the vertex binding was coalesced away by a pass that does not
\* resolve vertex buffers, while another table holds the buffer made instead.
C3_Witness ==
    /\ bindings["vertex_buffers"].cpu_addr # 0
    /\ bindings["vertex_buffers"].buffer_id = INVALID_ID
    /\ \E id \in DOMAIN slot_buffers : ~slot_buffers[id].live
    /\ \E k \in Tables : bindings[k].buffer_id \in LiveIds

\* The binding tables the BindHost* pass after an update dereferences.
GraphicsDereferenced(c, is_indexed) ==
    { "vertex_buffers" }
        \cup (IF is_indexed THEN { "index_buffer" } ELSE {})
        \cup (IF c.regs.tfb_enabled THEN { "transform_feedback_buffers" } ELSE {})
        \cup (IF c.masks.enabled_uniform_buffers THEN { "uniform_buffers" } ELSE {})
        \cup (IF c.masks.enabled_storage_buffers THEN { "storage_buffers" } ELSE {})

ComputeDereferenced(c) ==
    (IF c.masks.enabled_compute_uniform_buffers THEN { "compute_uniform_buffers" } ELSE {})
        \cup (IF c.masks.enabled_compute_storage_buffers
              THEN { "compute_storage_buffers" } ELSE {})

\* The binding holds the null buffer or a live buffer that contains its range.
BindingInBounds(c, binding) ==
    \/ binding.buffer_id = NULL_BUFFER_ID
    \/ /\ binding.buffer_id \in DOMAIN c.slot_buffers
       /\ c.slot_buffers[binding.buffer_id].live
       /\ IsInBounds(c.slot_buffers[binding.buffer_id], binding.cpu_addr, binding.size)

\* ... and the buffer, if not the null buffer, owns a page of the page table.
BindingUsable(c, binding) ==
    /\ BindingInBounds(c, binding)
    /\ binding.buffer_id # NULL_BUFFER_ID
          => \E p \in DOMAIN c.page_table : c.page_table[p] = binding.buffer_id

\* C11: after UpdateGraphicsBuffers(is_indexed) or UpdateComputeBuffers returns,
\* every binding the BindHost* pass dereferences holds the null buffer or a live,
\* registered buffer that contains the range of the binding.
C11_BindingsResolved ==
    /\ \A is_indexed \in BOOLEAN :
          \A c \in { UpdateGraphicsBuffers(Cache, is_indexed) } :
              (~c.has_deleted_buffers /\ WithinBuffers(c))
                  => \A k \in GraphicsDereferenced(c, is_indexed) :
                         BindingUsable(c, c.bindings[k])
    /\ \A c \in { UpdateComputeBuffers(Cache) } :
          (~c.has_deleted_buffers /\ WithinBuffers(c))
              => \A k \in ComputeDereferenced(c) : BindingUsable(c, c.bindings[k])

\* The same without the registration: what holds of the code for every binding,
\* the empty ones included.
BindingsInBounds ==
    /\ \A is_indexed \in BOOLEAN :
          \A c \in { UpdateGraphicsBuffers(Cache, is_indexed) } :
              (~c.has_deleted_buffers /\ WithinBuffers(c))
                  => \A k \in GraphicsDereferenced(c, is_indexed) :
                         BindingInBounds(c, c.bindings[k])
    /\ \A c \in { UpdateComputeBuffers(Cache) } :
          (~c.has_deleted_buffers /\ WithinBuffers(c))
              => \A k \in ComputeDereferenced(c) : BindingInBounds(c, c.bindings[k])

\* C12: the retry loop of UpdateGraphicsBuffers and of UpdateComputeBuffers ends,
\* after at most 8 passes, from every reachable state: the last pass it runs
\* deletes no buffer.
C12_RetryLoopEnds ==
    /\ \A is_indexed \in BOOLEAN :
          \A r \in { GraphicsLoop(Cache, is_indexed) } :
              ~r.c.has_deleted_buffers /\ r.passes <= 8
    /\ \A r \in { ComputeLoop(Cache) } : ~r.c.has_deleted_buffers /\ r.passes <= 8

\* A state from which the update needs a second pass: a resolve of the first
\* pass coalesces away the buffer a binding resolved earlier.
C12_Witness ==
    \E is_indexed \in BOOLEAN :
        \E r \in { GraphicsLoop(Cache, is_indexed) } :
            r.passes >= 2 /\ ~r.c.has_deleted_buffers /\ WithinBuffers(r.c)

\* ------------------------------------------------------------ download queue properties
NoDuplicates(buffers) ==
    \A i \in 1 .. Len(buffers), j \in 1 .. Len(buffers) :
        buffers[i] = buffers[j] => i = j

QueuesHaveNoDuplicates(c) ==
    /\ NoDuplicates(c.uncommitted_downloads)
    /\ \A i \in 1 .. Len(c.committed_downloads) : NoDuplicates(c.committed_downloads[i])

Holds(buffers, id) == \E i \in 1 .. Len(buffers) : buffers[i] = id

\* C4: uncommitted_downloads and every committed list hold no id twice, also
\* right after a resolve has replaced the ids of the buffers it coalesced.
C4_NoDuplicateDownloads ==
    /\ QueuesHaveNoDuplicates(Cache)
    /\ \A r \in Requests : \A f \in { FindBuffer(Cache, r[1], r[2]) } :
          QueuesHaveNoDuplicates(f.c)

\* A resolve is about to coalesce two buffers that stand in one list.
C4_Witness ==
    \E r \in Requests : \E f \in { FindBuffer(Cache, r[1], r[2]) } :
        \E b1 \in Absorbed(f), b2 \in Absorbed(f) :
              /\ b1 # b2
              /\ \/ Holds(uncommitted_downloads, b1) /\ Holds(uncommitted_downloads, b2)
                 \/ \E i \in 1 .. Len(committed_downloads) :
                       Holds(committed_downloads[i], b1) /\ Holds(committed_downloads[i], b2)

\* The host content buffer b holds for granule g.
HostAt(b, g) == b.host[g - b.cpu_addr \div Unit]

\* C10 as stated: when a buffer with a pending download is coalesced into a new
\* one, the queue element that held it holds the new id, and PopAsyncFlushes of
\* that element writes the GPU-written range back to guest memory.
C10_DownloadSurvivesCoalescing ==
    \A r \in Requests, o \in StagingOffsets :
        \A f \in { FindBuffer(Cache, r[1], r[2]) } : \A old \in Absorbed(f) :
            /\ Holds(uncommitted_downloads, old) => Holds(f.c.uncommitted_downloads, f.id)
            /\ \A i \in 1 .. Len(committed_downloads) :
                  Holds(committed_downloads[i], old)
                      => Holds(f.c.committed_downloads[i], f.id)
            /\ (committed_downloads # << >>
                  /\ Holds(committed_downloads[Len(committed_downloads)], old))
               => \A popped \in { PopAsyncFlushes(f.c, o) } :
                     \A g \in slot_buffers[old].gpu :
                         popped.cpu_memory[g] = HostAt(slot_buffers[old], g)

\* C13 as stated: ShouldWaitAsyncFlushes is true exactly when there is a
\* committed list and the oldest one, the list the next PopAsyncFlushes pops, is
\* not empty.
C13_ShouldWaitIsOldest ==
    ShouldWaitAsyncFlushes(Cache)
        <=> /\ committed_downloads # << >>
            /\ committed_downloads[Len(committed_downloads)] # << >>

\* C14: the committed lists are a FIFO.  CommitAsyncFlushes puts a copy of
\* uncommitted_downloads in as the newest list and empties uncommitted_downloads;
\* PopAsyncFlushes takes out exactly the list committed earliest, whatever it
\* holds, and changes nothing when there is no list.
C14_Fifo ==
    [][ /\ ActCommitAsyncFlushes
            => /\ committed_downloads' = << uncommitted_downloads >> \o committed_downloads
               /\ uncommitted_downloads' = << >>
        /\ ActPopAsyncFlushes
            => IF committed_downloads = << >> THEN UNCHANGED vars
               ELSE /\ committed_downloads' =
                         SubSeq(committed_downloads, 1, Len(committed_downloads) - 1)
                    /\ uncommitted_downloads' = uncommitted_downloads ]_vars

\* Two committed lists that differ, the older one with a buffer that has no
\* GPU-modified range left, or an empty one: the order of the pops shows.
C14_Witness ==
    /\ Len(committed_downloads) = 2
    /\ committed_downloads[1] # committed_downloads[2]
    /\ \/ committed_downloads[2] = << >>
       \/ \A i \in 1 .. Len(committed_downloads[2]) :
             slot_buffers[committed_downloads[2][i]].gpu = {}

\* C15: from empty queues, MarkWrittenBuffer(b, a, s) and CommitAsyncFlushes make
\* ShouldWaitAsyncFlushes true and HasUncommittedFlushes false; PopAsyncFlushes
\* then writes the host content of [a, a + s) to guest memory and leaves both
\* queues empty, ShouldWaitAsyncFlushes false and IsRegionGpuModified(a, s)
\* false.  (One granule stands for the 256 bytes of the scenario.)
C15_AsyncRoundTrip ==
    \A id \in LiveIds, a \in Addrs, s \in Sizes, o \in StagingOffsets :
        (uncommitted_downloads = << >> /\ committed_downloads = << >>
            /\ Resolved(id, a, s))
        => \A marked \in { MarkWrittenBuffer(CacheWith(SettingsAsync), id, a, s) } :
           \A drawn \in { marked, GpuWrite(marked, id) } :
           \A committed \in { CommitAsyncFlushes(drawn) } :
           \A popped \in { PopAsyncFlushes(committed, o) } :
              /\ ShouldWaitAsyncFlushes(committed)
              /\ ~HasUncommittedFlushes(committed)
              /\ \A g \in Range(a, s) :
                    popped.cpu_memory[g] = HostAt(drawn.slot_buffers[id], g)
              /\ popped.uncommitted_downloads = << >>
              /\ popped.committed_downloads = << >>
              /\ ~ShouldWaitAsyncFlushes(popped)
              /\ ~IsRegionGpuModified(popped, a, s)

\* The round trip has run: the queues are empty again and guest memory holds
\* what the GPU wrote to a buffer that has no GPU-modified range left.
C15_Witness ==
    /\ uncommitted_downloads = << >>
    /\ committed_downloads = << >>
    /\ \E id \in LiveIds : \E g \in Extent(slot_buffers[id]) :
          /\ slot_buffers[id].gpu = {}
          /\ HostAt(slot_buffers[id], g) = GpuVal(g)
          /\ cpu_memory[g] = GpuVal(g)

\* C16: MarkWrittenBuffer(id, addr, size) marks the range GPU-modified on the
\* buffer; it appends id to uncommitted_downloads exactly when high accuracy and
\* asynchronous emulation are both on and id is not in the list, leaves the list
\* alone otherwise, and never changes committed_downloads.
C16_MarkWrittenQueues ==
    \A id \in LiveIds, a \in Addrs, s \in Sizes, st \in AllSettings :
        Resolved(id, a, s)
        => \A marked \in { MarkWrittenBuffer(CacheWith(st), id, a, s) } :
              /\ Range(a, s) \subseteq marked.slot_buffers[id].gpu
              /\ marked.uncommitted_downloads =
                    IF /\ st.gpu_level_high /\ st.use_asynchronous_gpu_emulation
                       /\ ~Holds(uncommitted_downloads, id)
                    THEN Append(uncommitted_downloads, id)
                    ELSE uncommitted_downloads
              /\ marked.committed_downloads = committed_downloads

\* A buffer that is in uncommitted_downloads already can be marked again.
C16_Witness ==
    \E id \in LiveIds, a \in Addrs, s \in Sizes :
        /\ Resolved(id, a, s)
        /\ Holds(uncommitted_downloads, id)
        /\ Range(a, s) \subseteq slot_buffers[id].gpu
        /\ committed_downloads # << >>

\* The ids queued for download, uncommitted or committed.
QueuedIds ==
    { uncommitted_downloads[i] : i \in 1 .. Len(uncommitted_downloads) }
        \cup UNION { { committed_downloads[k][i] : i \in 1 .. Len(committed_downloads[k]) } :
                       k \in 1 .. Len(committed_downloads) }

\* C33 as stated: every id in uncommitted_downloads and in every committed list
\* is the id of a live buffer and never the null buffer id, also when a written
\* storage or transform feedback binding resolved to the null buffer during
\* Update.
C33_DownloadsLiveNotNull == QueuedIds \subseteq LiveIds

\* ------------------------------------------------------------ heuristic properties
\* Windows that hold `count` in slot 0 and nothing else, and the hit rates at
\* the threshold of TickFrame: << hits, shots >>.
WindowOf(count) == [ i \in 1 .. UNIFORM_CACHE_WINDOW |-> IF i = 1 THEN count ELSE 0 ]
ThresholdRates == { << 0, 0 >>, << 250, 256 >>, << 251, 256 >>, << 256, 256 >>, << 0, 1 >> }

\* The cache as it is, and with each window of ThresholdRates in place.
TickInputs ==
    { Cache } \cup { [ Cache EXCEPT !.uniform_cache_hits = WindowOf(r[1]),
                                    !.uniform_cache_shots = WindowOf(r[2]) ] :
                     r \in ThresholdRates }

\* C17 as stated: TickFrame sets skip_cache_size to 4096 when
\* hits*256 >= shots*251, hits and shots being the sums of the two windows
\* before the shift, and to 0 otherwise; the all-zero window gives 4096.
C17_SkipSizeFollowsHitRate ==
    \A c \in TickInputs, order \in CopyOrders :
        TickFrame(c, order).uniform_buffer_skip_cache_size =
            IF Reduce(c.uniform_cache_hits) * 256 >= Reduce(c.uniform_cache_shots) * 251
            THEN 4096 ELSE 0

\* C17 amended: TickFrame sets skip_cache_size to 4096 when
\* hits*256 < shots*251, hits and shots being the sums of the two windows before
\* the shift, and to 0 otherwise; a hit rate below 251/256 gives 4096, a hit
\* rate of at least 251/256 and the all-zero window give 0.
C17_SkipSizeFollowsMissRate ==
    \A c \in TickInputs, order \in CopyOrders :
        TickFrame(c, order).uniform_buffer_skip_cache_size =
            IF Reduce(c.uniform_cache_hits) * 256 < Reduce(c.uniform_cache_shots) * 251
            THEN 4096 ELSE 0

\* A frame has ticked over a window whose only shot was a miss, and a frame
\* ticks over a window whose only shot was a hit.
C17_Witness ==
    \/ /\ uniform_cache_shots[2] = 1
       /\ uniform_cache_hits[2] = 0
       /\ uniform_buffer_skip_cache_size = DEFAULT_SKIP_CACHE_SIZE
    \/ /\ uniform_cache_shots[2] = 1
       /\ uniform_cache_hits[2] = 1
       /\ uniform_buffer_skip_cache_size = 0

UniformBindable ==
    /\ masks.enabled_uniform_buffers
    /\ bindings["uniform_buffers"].buffer_id \in DOMAIN slot_buffers
    /\ slot_buffers[bindings["uniform_buffers"].buffer_id].live

\* buffer_id is not the null buffer, size <= skip_cache_size and the range is
\* not GPU-modified on the buffer.
Eligible(c) ==
    LET binding == c.bindings["uniform_buffers"]
    IN /\ binding.buffer_id # NULL_BUFFER_ID
       /\ binding.size <= c.uniform_buffer_skip_cache_size
       /\ ~BufferIsRegionGpuModified(c.slot_buffers[binding.buffer_id],
                                     binding.cpu_addr, binding.size)

TookFastPath(r) == r.calls \cap FastCalls # {}

\* The bind that follows MarkWrittenBuffer on the range of the uniform binding.
BindAfterWrite(needs_bind, has_fast_buffer_sub_data, staging_offset) ==
    LET binding == bindings["uniform_buffers"]
    IN BindHostGraphicsUniformBuffer(
           MarkWrittenBuffer(Cache, binding.buffer_id, binding.cpu_addr, binding.size),
           needs_bind, has_fast_buffer_sub_data, staging_offset)

C20_ZeroSkipSizeDisablesFastPath ==
    UniformBindable /\ uniform_buffer_skip_cache_size = 0
    => \A needs_bind \in BOOLEAN, has_fast_buffer_sub_data \in BOOLEAN,
          staging_offset \in StagingOffsets :
          ~TookFastPath(BindHostGraphicsUniformBuffer(
                            Cache, needs_bind, has_fast_buffer_sub_data, staging_offset))

\* C34: in every reachable state hits[i] <= shots[i] for every window index i:
\* the cached uniform path counts a hit only together with a shot, and
\* TickFrame shifts both windows alike.
C34_HitsAtMostShots ==
    \A i \in 1 .. UNIFORM_CACHE_WINDOW : uniform_cache_hits[i] <= uniform_cache_shots[i]

\* A bind that hit the cache has been shifted two frames into the windows.
C34_Witness ==
    /\ uniform_cache_hits[3] = 1
    /\ uniform_cache_shots[3] = 1
    /\ uniform_cache_shots[1] = 0

\* ------------------------------------------------------------ host binding properties
\* Two calls of BindHostGraphicsUniformBuffers in a row, nothing in between:
\* the results of the first and of the second.
TwoBinds(has_fast_buffer_sub_data, first_offset, second_offset) ==
    { [ first |-> first,
        second |-> BindHostGraphicsUniformBuffers(first.c, has_fast_buffer_sub_data,
                                                  second_offset) ] :
      first \in { BindHostGraphicsUniformBuffers(Cache, has_fast_buffer_sub_data,
                                                 first_offset) } }

\* The range of the uniform binding has no CPU-modified byte on its buffer.
UniformRangeClean ==
    LET binding == bindings["uniform_buffers"]
        buffer == slot_buffers[binding.buffer_id]
    IN buffer.cpu_addr = 0 \/ Range(binding.cpu_addr, binding.size) \cap buffer.cpu = {}

BindWriteBind(has_fast_buffer_sub_data, first_offset, second_offset) ==
    LET binding == bindings["uniform_buffers"]
    IN { [ first |-> first,
           second |-> BindHostGraphicsUniformBuffers(
                          MarkWrittenBuffer(first.c, binding.buffer_id, binding.cpu_addr,
                                            binding.size),
                          has_fast_buffer_sub_data, second_offset) ] :
         first \in { BindHostGraphicsUniformBuffers(Cache, has_fast_buffer_sub_data,
                                                    first_offset) } }

\* C22 as stated: when the classic path is taken for a slot whose most recent
\* host binding was made by a fast path, inline push or mapped stream, the
\* runtime's BindUniformBuffer is called even when needs_bind is false.
C22_RebindAfterFastPath ==
    UniformBindable /\ Eligible(Cache) /\ bindings["uniform_buffers"].size > 0
    => \A has_fast_buffer_sub_data \in BOOLEAN, o1 \in StagingOffsets, o2 \in StagingOffsets :
          \A two \in BindWriteBind(has_fast_buffer_sub_data, o1, o2) :
              /\ TookFastPath(two.first)
              /\ ~TookFastPath(two.second)
              /\ "BindUniformBuffer" \in two.second.calls

\* C27 as stated: when an eligible graphics uniform buffer is pushed inline, the
\* bit of the slot in fast_bound is set afterwards and
\* HasFastUniformBufferBound is true, and a second inline push to the slot
\* issues no BindFastUniformBuffer.
C27_InlinePushRecordsSlot ==
    UniformBindable /\ Eligible(Cache)
    => \A o1 \in StagingOffsets, o2 \in StagingOffsets :
          \A two \in TwoBinds(TRUE, o1, o2) :
              /\ "PushFastUniformBuffer" \in two.first.calls
              /\ two.first.c.fast_bound_uniform_buffers
              /\ HasFastUniformBufferBound(two.first.c)
              /\ "BindFastUniformBuffer" \notin two.second.calls

\* ------------------------------------------------------------ empty and unmapped bindings
\* The classes whose empty binding is the disabled sentinel after an update.
ZeroSizeIsNull(c, classes) ==
    \A k \in classes : c.bindings[k].size = 0 => c.bindings[k] = NULL_BINDING

\* The update made no buffer of size 0.
NoEmptyBufferCreated(c) ==
    \A id \in DOMAIN c.slot_buffers \ DOMAIN slot_buffers : c.slot_buffers[id].size > 0

\* C23 as stated: for every binding class, a bind request of size 0 leaves the
\* binding equal to the disabled sentinel (cpu_addr = 0, size = 0, null buffer)
\* after the update, as disabling the slot does, and creates no buffer.
C23_ZeroSizeIsDisabled ==
    /\ \A is_indexed \in BOOLEAN :
          \A c \in { UpdateGraphicsBuffers(Cache, is_indexed) } :
              (~c.has_deleted_buffers /\ WithinBuffers(c))
                  => /\ ZeroSizeIsNull(c, GraphicsDereferenced(c, is_indexed))
                     /\ NoEmptyBufferCreated(c)
    /\ \A c \in { UpdateComputeBuffers(Cache) } :
          (~c.has_deleted_buffers /\ WithinBuffers(c))
              => /\ ZeroSizeIsNull(c, ComputeDereferenced(c))
                 /\ NoEmptyBufferCreated(c)

\* C24: FindBuffer(0, s) returns the null buffer id for every s in every cache
\* state and changes nothing: no buffer is created or deleted, no page is
\* registered, whatever the page table holds on page 0.
C24_NullAddressIsNullBuffer ==
    \A r \in NullRequests : \A f \in { FindBuffer(Cache, r[1], r[2]) } :
        f.id = NULL_BUFFER_ID /\ f.c = Cache

\* Page 0 holds a live buffer that a lookup of address 0 would find, and
\* buffers have been deleted before.
C24_Witness ==
    /\ PageAt(page_table, 0) # INVALID_ID
    /\ slot_buffers[PageAt(page_table, 0)].live
    /\ \E id \in DOMAIN slot_buffers : ~slot_buffers[id].live

\* After an update: the register classes whose GPU address has no mapping hold
\* the null binding.
UnmappedRegistersAreNull(c, classes) ==
    /\ ("index_buffer" \in classes /\ c.regs.index_array.cpu_addr = NO_CPU_ADDR)
          => c.bindings["index_buffer"] = NULL_BINDING
    /\ ("vertex_buffers" \in classes /\ c.regs.vertex_array.cpu_addr = NO_CPU_ADDR)
          => c.bindings["vertex_buffers"] = NULL_BINDING
    /\ ("transform_feedback_buffers" \in classes
            /\ c.regs.tfb_bindings.cpu_addr = NO_CPU_ADDR)
          => c.bindings["transform_feedback_buffers"] = NULL_BINDING
    /\ ("compute_uniform_buffers" \in classes /\ c.regs.launch_cbuf.cpu_addr = NO_CPU_ADDR)
          => c.bindings["compute_uniform_buffers"] = NULL_BINDING

\* The cache after BindGraphicsUniformBuffer of an address with no mapping, the
\* slot enabled, and the update that follows.
UnmappedUniformUpdates(is_indexed) ==
    { UpdateGraphicsBuffers(c, is_indexed) :
        c \in { BindGraphicsUniformBuffer(
                    [ Cache EXCEPT !.masks.enabled_uniform_buffers = TRUE ],
                    NO_CPU_ADDR, BindSize, payload) : payload \in Disengaged } }

\* C25 as stated: for every binding class, BindGraphicsUniformBuffer included,
\* when GpuToCpuAddress has no mapping for the GPU address of the binding, the
\* binding is the null binding (cpu_addr = 0, size = 0, null buffer) after the
\* update and no buffer is created for it.
C25_UnmappedIsNull ==
    /\ \A is_indexed \in BOOLEAN :
          /\ \A c \in { UpdateGraphicsBuffers(Cache, is_indexed) } :
                (~c.has_deleted_buffers /\ WithinBuffers(c))
                    => UnmappedRegistersAreNull(c, GraphicsDereferenced(c, is_indexed))
          /\ \A c \in UnmappedUniformUpdates(is_indexed) :
                (~c.has_deleted_buffers /\ WithinBuffers(c))
                    => c.bindings["uniform_buffers"] = NULL_BINDING
    /\ \A c \in { UpdateComputeBuffers(Cache) } :
          (~c.has_deleted_buffers /\ WithinBuffers(c))
              => UnmappedRegistersAreNull(c, ComputeDereferenced(c))
    /\ \A size \in StorageSizes :
          StorageBufferBinding(NO_CPU_ADDR, size, BindSize) = NULL_BINDING

\* C26: in every reachable state no page of the page table maps to the null
\* buffer id: slot 0 holds the null buffer as constructed, it is never deleted,
\* and FindBuffer of an address other than 0 never returns it.
C26_NullBufferUnregistered ==
    /\ \A p \in DOMAIN page_table : page_table[p] # NULL_BUFFER_ID
    /\ slot_buffers[NULL_BUFFER_ID] = NullBuffer
    /\ \A r \in Requests : \A f \in { FindBuffer(Cache, r[1], r[2]) } :
          /\ f.id # NULL_BUFFER_ID
          /\ f.c.slot_buffers[NULL_BUFFER_ID] = NullBuffer

\* Buffers have been created and deleted: the pages of a deleted buffer map to
\* the buffer that took it over, and three slots follow the null buffer.
C26_Witness ==
    /\ NextId(Cache) >= 4
    /\ \E old \in DOMAIN slot_buffers \ { NULL_BUFFER_ID } :
          /\ ~slot_buffers[old].live
          /\ \A p \in PagesOf(slot_buffers[old]) :
                PageAt(page_table, p) \in LiveIds

\* ------------------------------------------------------------ stream leap properties
\* The bytes a stream leap adds.
LeapHeadroom == PAGE_SIZE * STREAM_LEAP_PAGES

EndOf(c, id) == c.slot_buffers[id].cpu_addr + c.slot_buffers[id].size

\* The largest of e and the end addresses of the buffers S.
MaxEnd(c, e, S) ==
    LET ends == { e } \cup { EndOf(c, id) : id \in S }
    IN CHOOSE m \in ends : \A x \in ends : x <= m

\* The smallest of b and the start addresses of the buffers S.
MinBegin(c, b, S) ==
    LET begins == { b } \cup { c.slot_buffers[id].cpu_addr : id \in S }
    IN CHOOSE m \in begins : \A x \in begins : m <= x

PickedUpTo(ids, k) == { ids[i] : i \in 1 .. k }
PickedAfter(ids, k) == { ids[i] : i \in k + 1 .. Len(ids) }

\* The running sum of the stream scores after the k-th picked buffer.
RECURSIVE ScoreOfFirst(_, _, _)
ScoreOfFirst(c, ids, k) ==
    IF k = 0 THEN 0
    ELSE ScoreOfFirst(c, ids, k - 1) + c.slot_buffers[ids[k]].stream_score

\* The picks at which the running sum exceeds the threshold.
LeapPicks(c, ids) ==
    { k \in 1 .. Len(ids) : ScoreOfFirst(c, ids, k) > STREAM_LEAP_THRESHOLD }

\* The live buffers of c that share a page with [b, e).
Touching(c, b, e) ==
    { id \in DOMAIN c.slot_buffers \ { NULL_BUFFER_ID } :
        /\ c.slot_buffers[id].live
        /\ PagesOf(c.slot_buffers[id])
               \cap ((b \div PAGE_SIZE) .. (DivCeil(e, PAGE_SIZE) - 1)) # {} }

\* The natural extent of a request [b, e): the smallest extent that contains it
\* and every live buffer sharing a page with the extent.
RECURSIVE NaturalExtent(_, _, _)
NaturalExtent(c, b, e) ==
    LET ids == Touching(c, b, e)
        begin == MinBegin(c, b, ids)
        end == MaxEnd(c, e, ids)
    IN IF begin = b /\ end = e THEN [ begin |-> b, end |-> e, ids |-> ids ]
       ELSE NaturalExtent(c, begin, end)

\* C28 as stated: ResolveOverlaps sets stream_leap iff the running sum of the
\* overlapped buffers' stream scores exceeds 16 at some point of the scan;
\* without a leap the returned end is the natural maximum end, and with a leap
\* and no other buffer in the added headroom it is the natural maximum end plus
\* 256 * PAGE_SIZE.
C28_LeapWidensNaturalEnd ==
    \A q \in Requests :
    \A r \in { ResolveOverlaps(Cache, q[1], q[2]) } :
    \A n \in { NaturalExtent(Cache, q[1], q[1] + q[2]) } :
        /\ r.has_stream_leap <=> LeapPicks(Cache, r.ids) # {}
        /\ ~r.has_stream_leap => r.end = n.end
        /\ (r.has_stream_leap /\ Touching(Cache, n.end, n.end + LeapHeadroom) \subseteq n.ids)
              => r.end = n.end + LeapHeadroom

\* C28, amended: ResolveOverlaps sets stream_leap iff the running sum exceeds 16
\* at some point of the scan; without a leap the returned end is the natural
\* maximum end; with a leap the end is widened by 256 * PAGE_SIZE once, at the
\* pick where the sum first exceeds 16, so the returned end is the larger of the
\* running end at that pick plus 256 * PAGE_SIZE and the ends of the buffers
\* picked after it.
C28_LeapWidensRunningEnd ==
    \A q \in Requests :
    \A r \in { ResolveOverlaps(Cache, q[1], q[2]) } :
    \A n \in { NaturalExtent(Cache, q[1], q[1] + q[2]) } :
        /\ r.has_stream_leap <=> LeapPicks(Cache, r.ids) # {}
        /\ ~r.has_stream_leap => r.end = n.end
        /\ r.has_stream_leap =>
              \A k \in { SetMin(LeapPicks(Cache, r.ids)) } :
              \A running \in { MaxEnd(Cache, q[1] + q[2], PickedUpTo(r.ids, k)) } :
                  r.end = MaxEnd(Cache, running + LeapHeadroom, PickedAfter(r.ids, k))

\* A buffer with the headroom of a stream leap stands where a buffer with a
\* score above the threshold was coalesced away.
C28_Witness ==
    /\ \E id \in LiveIds : slot_buffers[id].size >= LeapHeadroom
    /\ \E id \in DOMAIN slot_buffers :
          /\ ~slot_buffers[id].live
          /\ slot_buffers[id].stream_score > STREAM_LEAP_THRESHOLD

\* C29: after CreateBuffer merges the overlapped buffers o1..oN without a stream
\* leap, the new buffer's stream score is the sum over i of
\* (stream_score(oi) + 1); when the resolve had a stream leap no join
\* accumulates and the new buffer's stream score stays at its initial value.
C29_ScoreAccumulatesUnlessLeap ==
    \A q \in Requests :
    \A r \in { ResolveOverlaps(Cache, q[1], q[2]) } :
    \A f \in { CreateBuffer(Cache, q[1], q[2]) } :
        f.c.slot_buffers[f.id].stream_score =
            IF r.has_stream_leap
            THEN NewBuffer(r.begin, r.end - r.begin).stream_score
            ELSE ScoreOfFirst(Cache, r.ids, Len(r.ids)) + Len(r.ids)

\* A buffer made by a merge without a leap carries the scores of the two
\* buffers it absorbed, each plus one.
C29_Witness ==
    \E id \in LiveIds, o1 \in DOMAIN slot_buffers, o2 \in DOMAIN slot_buffers :
        /\ o1 # o2
        /\ ~slot_buffers[o1].live
        /\ ~slot_buffers[o2].live
        /\ slot_buffers[o1].stream_score + slot_buffers[o2].stream_score > 0
        /\ slot_buffers[id].stream_score =
              slot_buffers[o1].stream_score + slot_buffers[o2].stream_score + 2
        /\ slot_buffers[id].size < LeapHeadroom

\* The requests that straddle the live buffers b1 and b2: they touch a page of
\* each and lie within neither.
Straddles(q, b1, b2) ==
    /\ b1 # b2
    /\ { b1, b2 } \subseteq Touching(Cache, q[1], q[1] + q[2])
    /\ ~IsInBounds(slot_buffers[b1], q[1], q[2])
    /\ ~IsInBounds(slot_buffers[b2], q[1], q[2])

\* C30: ResolveOverlaps(addr, size) returns each live buffer that shares a page
\* with the final extent [begin, end) exactly once, where begin is the minimum
\* of addr and the picked buffers' start addresses and end is at least the
\* maximum of addr + size and their end addresses; FindBuffer on a range that
\* straddles buffers B1 and B2 yields one new buffer over their union, B1 and
\* B2 are deleted and all their pages map to the new id.
C30_ResolvePicksEachOverlapOnce ==
    \A q \in Requests :
    \A r \in { ResolveOverlaps(Cache, q[1], q[2]) } :
    \A picked \in { PickedUpTo(r.ids, Len(r.ids)) } :
        /\ Cardinality(picked) = Len(r.ids)
        /\ picked = Touching(Cache, r.begin, r.end)
        /\ r.begin = MinBegin(Cache, q[1], picked)
        /\ r.end >= MaxEnd(Cache, q[1] + q[2], picked)
        /\ \A b1 \in LiveIds, b2 \in LiveIds :
              Straddles(q, b1, b2) =>
                  \A f \in { FindBuffer(Cache, q[1], q[2]) } :
                  \A new \in { f.c.slot_buffers[f.id] } :
                      /\ f.id \notin DOMAIN slot_buffers
                      /\ new.live
                      /\ new.cpu_addr = MinBegin(Cache, q[1], picked)
                      /\ new.cpu_addr + new.size >= MaxEnd(Cache, q[1] + q[2], picked)
                      /\ ~r.has_stream_leap =>
                            new.cpu_addr + new.size = MaxEnd(Cache, q[1] + q[2], picked)
                      /\ ~f.c.slot_buffers[b1].live
                      /\ ~f.c.slot_buffers[b2].live
                      /\ \A p \in PagesOf(slot_buffers[b1]) \cup PagesOf(slot_buffers[b2]) :
                            PageAt(f.c.page_table, p) = f.id
                      /\ { id \in DOMAIN f.c.slot_buffers \ { NULL_BUFFER_ID } :
                              f.c.slot_buffers[id].live } \cap picked = {}

\* Two live buffers on neighbouring pages, one of them made by a merge, and a
\* request that begins in the first and ends in the second.
C30_Witness ==
    /\ \E id \in DOMAIN slot_buffers : ~slot_buffers[id].live
    /\ \E b1 \in LiveIds, b2 \in LiveIds, q \in Requests :
          /\ Straddles(q, b1, b2)
          /\ slot_buffers[b1].cpu_addr <= q[1]
          /\ slot_buffers[b2].cpu_addr > q[1]
          /\ slot_buffers[b2].cpu_addr < q[1] + q[2]

\* ------------------------------------------------------------ cached write properties
\* The ids recorded for the flush.
Recorded(c) == { c.cached_write_buffer_ids[i] : i \in 1 .. Len(c.cached_write_buffer_ids) }

\* C31: cached_write_buffer_ids contains only ids of live buffers and no id
\* twice: a live buffer is recorded exactly while it has cached writes, and
\* FlushCachedWrites flushes each recorded buffer and leaves the list empty, so
\* it touches no buffer that was pushed to the delayed destruction ring.
C31_CachedWritesLiveAndDistinct ==
    /\ Recorded(Cache) \subseteq LiveIds
    /\ Cardinality(Recorded(Cache)) = Len(cached_write_buffer_ids)
    /\ \A id \in LiveIds : HasCachedWrites(slot_buffers[id]) <=> id \in Recorded(Cache)
    /\ \A c \in { FlushCachedWrites(Cache) } :
          /\ c.cached_write_buffer_ids = << >>
          /\ \A id \in DOMAIN slot_buffers :
                IF id \in LiveIds
                THEN /\ ~HasCachedWrites(c.slot_buffers[id])
                     /\ c.slot_buffers[id].cached = {}
                     /\ c.slot_buffers[id].cpu = slot_buffers[id].cpu \cup slot_buffers[id].cached
                ELSE c.slot_buffers[id] = slot_buffers[id]

\* A buffer is recorded for the flush while another one, deleted by a merge,
\* still carries the cached writes it was recorded for.
C31_Witness ==
    /\ cached_write_buffer_ids # << >>
    /\ \E id \in DOMAIN slot_buffers \ { NULL_BUFFER_ID } :
          /\ ~slot_buffers[id].live
          /\ HasCachedWrites(slot_buffers[id])

\* ------------------------------------------------------------ content properties
\* The granules the GPU has written and no download has written back.
GpuOwned == UNION { slot_buffers[id].gpu : id \in LiveIds }

\* The bindings that cover [a, a + s).
Covering(a, s) == { q \in Requests : q[1] <= a /\ a + s <= q[1] + q[2] }

\* C32 as stated: no CPU write is lost to coalescing.  WriteMemory(a, s)
\* completes; UpdateGraphicsBuffers resolves a binding, which may merge the
\* buffer that received the CPU-modified mark into a new one; then a binding
\* covering [a, a + s) is resolved and bound.  After the bind the host buffer
\* holds the written bytes of [a, a + s) that the GPU does not own, and none of
\* them is CPU-modified.
C32_NoCpuWriteLost ==
    \A a \in Addrs, s \in Sizes :
        InMemory(a, s) =>
            \A written \in { GuestWrite(Cache, a, s) } :
            \A q1 \in Requests : \A merged \in { FindBuffer(written, q1[1], q1[2]).c } :
            \A q \in Covering(a, s) : \A f \in { FindBuffer(merged, q[1], q[2]) } :
            \A o \in StagingOffsets :
            \A bound \in { SynchronizeBuffer(f.c, f.id, q[1], q[2], o).c } :
                \A g \in Range(a, s) \ GpuOwned :
                    /\ g \notin bound.slot_buffers[f.id].cpu
                    /\ HostAt(bound.slot_buffers[f.id], g) = written.cpu_memory[g]

\* C7 as stated: when CreateBuffer merges old buffers, every byte that is
\* GPU-modified in one of them is copied to the new buffer at its offset there
\* and is not CPU-modified in the new buffer, so that a following
\* SynchronizeBuffer does not overwrite it with guest memory.
C7_MergeKeepsGpuContent ==
    \A r \in Requests, o \in StagingOffsets :
        \A f \in { FindBuffer(Cache, r[1], r[2]) } :
        \A new \in { f.c.slot_buffers[f.id] } :
        \A synced \in { SynchronizeBuffer(f.c, f.id, new.cpu_addr, new.size, o).c } :
            \A old \in Absorbed(f) : \A g \in slot_buffers[old].gpu :
                /\ HostAt(new, g) = HostAt(slot_buffers[old], g)
                /\ g \notin new.cpu
                /\ HostAt(synced.slot_buffers[f.id], g) = HostAt(slot_buffers[old], g)

\* C9: WriteMemory(a, s), the upload, MarkWrittenBuffer(id, a, s) and
\* DownloadMemory(a, s), with or without GPU work before the download: the
\* download writes to every address of [a, a + s) the byte the host buffer held
\* at that address minus buffer.cpu_addr, and writes nothing else.
C9_RoundTrip ==
    \A a \in Addrs, s \in Sizes : \A written \in { GuestWrite(Cache, a, s) } :
    \A id \in LiveIds, o \in StagingOffsets :
        Resolved(id, a, s) =>
            \A uploaded \in { SynchronizeBuffer(written, id, a, s, o).c } :
            \A st \in { SettingsOff, SettingsAsync } :
            \A marked \in { MarkWrittenBuffer([ uploaded EXCEPT !.settings = st ],
                                              id, a, s) } :
            \A drawn \in { marked, GpuWrite(marked, id) } :
            \A downloaded \in { DownloadMemory(drawn, a, s, o) } :
               /\ \A g \in Range(a, s) :
                    /\ HostAt(uploaded.slot_buffers[id], g) = GuestVal(g)
                    /\ downloaded.cpu_memory[g] = HostAt(drawn.slot_buffers[id], g)
               /\ \A g \in MemGranules \ Range(a, s) :
                    downloaded.cpu_memory[g] = written.cpu_memory[g]

\* Guest memory holds what the GPU wrote into a buffer that is clean again: a
\* download has written GPU data back, from a buffer that does not start at
\* the downloaded address.
C9_Witness ==
    \E id \in LiveIds :
        LET b == slot_buffers[id]
        IN \E g \in Extent(b) :
              /\ g * Unit # b.cpu_addr
              /\ g \notin b.gpu
              /\ HostAt(b, g) = GpuVal(g)
              /\ cpu_memory[g] = GpuVal(g)

====
